---- MODULE Spec2Model ----
(***************************************************************************)
(* Verification model of ringmpsc: a lock-free MPSC channel composed of    *)
(* one SPSC ring per registered producer.                                  *)
(*                                                                         *)
(* Every atomic load/store of a shared location (tail, head, closed,       *)
(* producer_count, a buffer slot) is one step; producer-local and          *)
(* consumer-local computation is folded into the step that follows the     *)
(* preceding shared access.                                                *)
(***************************************************************************)
EXTENDS Integers, Sequences, FiniteSets, TLC

\* ---------------------------------------------------------------------
\* Configuration and bounds
\* ---------------------------------------------------------------------

\* Config::ring_bits of the small test rings (capacity 4)
RingBits == 2

\* Config::max_producers of the channel under test
MaxProducers == 2

\* Backoff::SPIN_LIMIT and Backoff::YIELD_LIMIT
SPIN_LIMIT == 6
YIELD_LIMIT == 10

\* Bound: number of values the producer of the single-ring specification
\* may write into its ring
MaxVal == 5

\* Bound: number of send / try_send calls of the async specification
MaxStreamVal == 5

\* Bound: number of values the sender of the factory specification may
\* write
MaxFactoryVal == 3

\* Threads that call SenderFactory::register in the factory specification
FactoryThreads == {1, 2}

\* Bound: number of items the Sink specification hands to start_send
MaxSinkVal == 5

\* Bound: number of shutdown calls (RingReceiver::shutdown and
\* ShutdownSignal::shutdown together) in the shutdown specification
MaxShutdownCalls == 2

\* Bound: number of values the sender of the shutdown specification may
\* write on top of the items its ring is loaded with
MaxShutdownVal == 2

\* Values of StreamConfig::batch_hint the async specification runs with:
\* the default, and a small one that makes the receiver's drains partial
BatchHints == {2, 64}

\* Bound: number of items the task of the SinkExt::send specification
\* may send
MaxSinkSendVal == 5

\* Bound: number of values the producer of the two-reservation
\* specification may write after the warm-up
MaxOverlapVal == 3

\* Bound: number of values the producer of the exactly-n specification
\* may write
MaxFillVal == 6

\* Bound: number of values the producer of the ring-slice specification
\* may write after the warm-up
MaxSliceVal == 2

\* Bound: number of values the producer of the cached-tail specification
\* may write
MaxCacheVal == 4

\* Bound: number of values the producer of the life-cycle specification
\* may write
MaxLifeVal == 5

\* Bound: number of values the producer of the backoff specification may
\* write
MaxBackoffVal == 4

\* Bound: number of values the producers of the fan-in specification may
\* push, all together, on top of the items their rings are loaded with
MaxFanInVal == 2

\* Bound: number of values the producers of the channel specification may
\* write into their rings, all together
MaxChanVal == 3

\* Bound: number of register() calls issued against one channel
MaxRegCalls == 4

Capacity == 2 ^ RingBits

Mask == Capacity - 1

Rings == 0 .. (MaxProducers - 1)

Slots == 0 .. (Capacity - 1)

RegThreads == 1 .. MaxRegCalls

\* Content of a slot that was never written
NoItem == <<-1, -1>>

\* ---------------------------------------------------------------------
\* Arithmetic helpers
\* ---------------------------------------------------------------------

Min(a, b) == IF a <= b THEN a ELSE b

\* usize/u64 bitwise AND, as used in `seq & mask`
RECURSIVE BitAnd(_, _)
BitAnd(a, b) ==
    IF a = 0 \/ b = 0 THEN 0
    ELSE (a % 2) * (b % 2) + 2 * BitAnd(a \div 2, b \div 2)

\* u64::wrapping_sub. Sequences stay far below the word size, so the only
\* case where the width shows is a < b, where the result is a huge number
\* (here 2^30 - (b - a), larger than any capacity).
WrappingSub(a, b) == IF a >= b THEN a - b ELSE (1073741824 - b) + a

\* usize::saturating_sub
SaturatingSub(a, b) == IF a >= b THEN a - b ELSE 0

\* ---------------------------------------------------------------------
\* State
\* ---------------------------------------------------------------------

VARIABLES
    tail,            \* Ring::tail, per ring
    head,            \* Ring::head, per ring
    cached_head,     \* Ring::cached_head, per ring (producer-local)
    cached_tail,     \* Ring::cached_tail, per ring (consumer-local)
    closed,          \* Ring::closed, per ring
    active,          \* Ring::active, per ring
    buffer,          \* Ring::buffer, per ring: slot index -> content
    producer_count,  \* ChannelInner::producer_count
    ch_closed,       \* ChannelInner::closed
    prod,            \* per ring: the producer handle and its call in progress
    cons,            \* the consumer thread and its call in progress
    reg,             \* per thread: a Channel::register call in progress
    closer,          \* a Channel::close call in progress
    nextVal,         \* per ring: next fresh value the producer writes
    sent,            \* per ring: values published by commits, in order
    delivered,       \* per producer: values handed to the drain handler
    batches,         \* per ring: tail values at which a commit published,
                     \* kept until head has moved past them
    obs,             \* what the first completed Channel::close left behind
    quota,           \* number of values the producers may write in all
    handed,          \* ring indices claimed by successful registrations,
                     \* in the order the claims took effect
    sender,          \* the task that owns the RingSender, and its call
    receiver,        \* RingReceiver and the poll_next in progress
    data_notify,     \* the data-arrived Notify
    shutdown,        \* ShutdownState, the oneshot, and a shutdown call
    dropped          \* per ring: what Drop for Ring destroyed

streamVars == <<sender, receiver, data_notify, shutdown>>

vars == <<tail, head, cached_head, cached_tail, closed, active, buffer,
          producer_count, ch_closed, prod, cons, reg, closer,
          nextVal, sent, delivered, batches, obs, quota, handed, streamVars, dropped>>

ringVars == <<tail, head, cached_head, cached_tail, closed, buffer>>

\* No second reservation is held next to the first
NoSecond == [pc |-> "none", t |-> 0, len |-> 0, wr |-> 0]

\* No caller is writing exactly n items
NoFill == [n |-> 0, pieces |-> 0, done |-> 0, free |-> 0, t0 |-> 0]

\* Producer handle with no call in progress; second is the reservation
\* the producer takes while it still holds one; fill is the caller that
\* wants exactly n items written: the reservations it has asked for, the
\* items it has committed, and the free slots and the tail of the ring
\* when it began
IdleProducer ==
    [pc |-> "idle", op |-> "-", n |-> 0, t |-> 0, len |-> 0, wr |-> 0,
     step |-> 0, res |-> "-", ret |-> 0, late |-> FALSE,
     second |-> NoSecond, fill |-> NoFill]

\* Ring slot of the channel for which no handle has been handed out
NoProducer == [IdleProducer EXCEPT !.pc = "none"]

\* Consumer thread with no call in progress
IdleConsumer ==
    [pc |-> "idle", op |-> "-", owned |-> FALSE, chan |-> FALSE, i |-> 0,
     count |-> 0, head |-> 0, tail |-> 0, pos |-> 0, n |-> 0,
     to_consume |-> 0, max |-> 0, max_total |-> 0, total |-> 0, ret |-> 0,
     log |-> <<>>]

\* Thread that has not called Channel::register yet; late records that
\* the call began after SenderFactory::close had returned
IdleRegister ==
    [pc |-> "idle", id |-> -1, result |-> "-", max |-> 0, late |-> FALSE]

\* No Channel::close call in progress
IdleCloser == [pc |-> "idle", count |-> 0, i |-> 0]

\* RingSender with no call in progress. t0, p0 and b0 are the tail, the
\* number of data notifications and the slots of the ring when the last
\* call began; retries counts the wake-ups of that call. pending_item is
\* the field of the Sink implementation; ready says that poll_ready has
\* returned Ready(Ok) and no start_send has used it, accepted lists the
\* items for which start_send returned Ok, flushed counts the pending items
\* committed by poll_ready, poll_flush or poll_close; late records that
\* the call began after SenderFactory::close had returned; woken says that
\* the poll method that returned Pending has called the task's waker
IdleSender ==
    [pc |-> "idle", kind |-> "-", item |-> NoItem, result |-> "-",
     back |-> NoItem, t0 |-> 0, p0 |-> 0, b0 |-> <<>>, retries |-> 0,
     pending_item |-> NoItem, ready |-> FALSE, accepted |-> <<>>,
     flushed |-> 0, late |-> FALSE, woken |-> FALSE]

\* RingReceiver::new; signaled says that the poll_next in progress, or the
\* last one, has called backpressure_notify.notify_waiters()
NewReceiver ==
    [pc |-> "idle", batch_hint |-> 0, data_pending |-> FALSE,
     drain_complete |-> FALSE, shutdown_rx |-> TRUE, out |-> <<>>,
     ended |-> FALSE, signaled |-> FALSE]

\* Notify::new for the data-arrived notifier; pulses counts the
\* notify_one calls
NewNotify == [permit |-> FALSE, pulses |-> 0]

\* ShutdownState::new and the oneshot channel of RingReceiver::new;
\* while_blocked records that the first shutdown call came during a blocked
\* send, calls counts the shutdown calls and limit bounds them, first is
\* the kind of the first call, kind that of the latest
NewShutdown ==
    [pc |-> "idle", kind |-> "-", closed |-> FALSE,
     shutdown_initiated |-> FALSE, tx_sent |-> FALSE,
     while_blocked |-> FALSE, calls |-> 0, limit |-> 1, first |-> "-"]

\* The channel is used without the async adapter
NoStream ==
    /\ sender = IdleSender
    /\ receiver = NewReceiver
    /\ data_notify = NewNotify
    /\ shutdown = NewShutdown

\* A ring that is still owned: Drop for Ring has not run. ub records a
\* drop that found head past tail and walked over slots it does not own
NotDropped == [done |-> FALSE, ub |-> FALSE, items |-> <<>>]

\* No Channel::close has completed yet
NoObs == -1

\* A Channel::close completed while a producer call was in progress
Unsettled == -2

\* Ring::new for every ring of the channel, Channel::new for the rest
InitRings ==
    /\ tail = [r \in Rings |-> 0]
    /\ head = [r \in Rings |-> 0]
    /\ cached_head = [r \in Rings |-> 0]
    /\ cached_tail = [r \in Rings |-> 0]
    /\ closed = [r \in Rings |-> FALSE]
    /\ buffer = [r \in Rings |-> [i \in Slots |-> NoItem]]
    /\ ch_closed = FALSE
    /\ cons = IdleConsumer
    /\ closer = IdleCloser
    /\ nextVal = [r \in Rings |-> 1]
    /\ sent = [r \in Rings |-> <<>>]
    /\ delivered = [r \in Rings \cup {-1} |-> <<>>]
    /\ batches = [r \in Rings |-> {0}]
    /\ obs = NoObs
    /\ dropped = [r \in Rings |-> NotDropped]

\* ---------------------------------------------------------------------
\* Ring: producer side
\* ---------------------------------------------------------------------

\* Slot index of a sequence number: (seq as usize) & mask
SlotOf(seq) == BitAnd(seq, Mask)

\* Variant: the free space is over-estimated by one slot
SpaceOffByOne(t, h) == SaturatingSub(Capacity + 1, WrappingSub(t, h))

\* Free space as Ring::reserve computes it from tail and a head value
Space(t, h) == SaturatingSub(Capacity, WrappingSub(t, h))

\* Variant: grants the requested length without clipping at the wrap
MakeReservationLenUnclipped(t, n) == n

\* Ring::make_reservation: length of the contiguous slice granted
MakeReservationLen(t, n) == Min(n, Capacity - SlotOf(t))

\* The producer call returns to its caller: only the outcome and the
\* returned count stay observable
Returned(res, ret) == [IdleProducer EXCEPT !.res = res, !.ret = ret]

\* Ring::reserve returned None (the refused request stays observable)
OnNone(p) ==
    IF p.op = "rwb"
    THEN [p EXCEPT !.pc = "rwb_check", !.res = "None"]
    ELSE [Returned("None", 0) EXCEPT !.n = p.n, !.fill = p.fill]

\* Ring::reserve returned Some(make_reservation(t, n))
OnSome(p, t) ==
    [p EXCEPT !.pc = IF p.op \in {"push", "send"} THEN "writing"
                     ELSE "holding",
              !.res = "Some", !.t = t,
              !.len = MakeReservationLen(t, p.n), !.wr = 0]

\* Ring::reserve, fast-path test on the cached head
FastPathHasSpace(space, n) == space >= n

\* Variant: the slow path rejects when space <= n
SlowPathFullStrict(space, n) == space <= n

\* Ring::reserve, slow-path test on the refreshed head
SlowPathFull(space, n) == space < n

\* Ring::reserve up to the end of the fast path (tail and cached_head are
\* the producer's own, so this part reads nothing shared)
ReserveFast(r, p) ==
    IF p.n = 0 \/ p.n > Capacity THEN OnNone(p)
    ELSE IF FastPathHasSpace(Space(tail[r], cached_head[r]), p.n)
         THEN OnSome(p, tail[r])
         ELSE [p EXCEPT !.pc = "slow", !.t = tail[r]]

\* Sum of f over the finite set S
RECURSIVE SumOver(_, _)
SumOver(f, S) ==
    IF S = {} THEN 0
    ELSE LET x == CHOOSE y \in S : TRUE
         IN f[x] + SumOver(f, S \ {x})

\* Number of values written so far by all producers
Written == SumOver([r \in Rings |-> nextVal[r] - 1], Rings)

\* A producer call that starts with Ring::reserve(n)
CallReserve(r, op, n) ==
    /\ prod[r].pc = "idle"
    /\ (n >= 1 /\ n <= Capacity) =>
            Written + MakeReservationLen(tail[r], n) <= quota
    /\ prod' = [prod EXCEPT ![r] =
            ReserveFast(r, [IdleProducer EXCEPT !.op = op, !.n = n,
                                                !.late = closed[r]])]
    /\ UNCHANGED <<ringVars, active, producer_count, ch_closed, cons, reg,
                   closer, nextVal, sent, delivered, batches, obs, quota, handed, streamVars, dropped>>

\* Producer::reserve / Ring::reserve
Reserve(r) == \E n \in 0 .. (Capacity + 1) : CallReserve(r, "reserve", n)

\* Producer::push / Ring::push
Push(r) == CallReserve(r, "push", 1)

\* Producer::send / Ring::send with a slice of n items
Send(r) == \E n \in 0 .. (Capacity + 1) : CallReserve(r, "send", n)

\* Producer::reserve_with_backoff / Ring::reserve_with_backoff
ReserveWithBackoff(r) ==
    \E n \in 0 .. (Capacity + 1) : CallReserve(r, "rwb", n)

\* Ring::reserve slow path: Acquire-load head, refresh cached_head, decide
ReserveSlow(r) ==
    /\ prod[r].pc = "slow"
    /\ cached_head' = [cached_head EXCEPT ![r] = head[r]]
    /\ prod' = [prod EXCEPT ![r] =
            IF SlowPathFull(Space(prod[r].t, head[r]), prod[r].n)
            THEN OnNone(prod[r])
            ELSE OnSome(prod[r], prod[r].t)]
    /\ UNCHANGED <<tail, head, cached_tail, closed, buffer, active,
                   producer_count, ch_closed, cons, reg, closer, nextVal,
                   sent, delivered, batches, obs, quota, handed, streamVars, dropped>>

\* Backoff::spin, effect on step
Spin(step) == IF step <= SPIN_LIMIT THEN step + 1 ELSE step

\* Backoff::snooze, effect on step
Snooze(step) ==
    IF step <= SPIN_LIMIT THEN Spin(step)
    ELSE IF step <= YIELD_LIMIT THEN step + 1 ELSE step

\* Variant: the backoff never reports completion
IsCompletedNever(step) == FALSE

\* Backoff::is_completed
IsCompleted(step) == step > YIELD_LIMIT

\* Ring::reserve_with_backoff after a failed attempt: is_closed(), snooze,
\* loop test and the fast path of the next attempt
RwbCheck(r) ==
    /\ prod[r].pc = "rwb_check"
    /\ prod' = [prod EXCEPT ![r] =
            IF closed[r]
            THEN [Returned("None", 0) EXCEPT !.n = prod[r].n]
            ELSE LET s == Snooze(prod[r].step)
                 IN IF IsCompleted(s)
                    THEN [Returned("None", 0) EXCEPT !.n = prod[r].n]
                    ELSE ReserveFast(r, [prod[r] EXCEPT !.step = s])]
    /\ UNCHANGED <<ringVars, active, producer_count, ch_closed, cons, reg,
                   closer, nextVal, sent, delivered, batches, obs, quota, handed, streamVars, dropped>>

\* Variant: the slice of a reservation starts one slot before the tail
SliceSlotBehind(t, i) == SlotOf(t + Capacity - 1) + i

\* Ring::make_reservation: element i of the slice is buffer[idx + i] with
\* idx = (tail as usize) & mask
SliceSlot(t, i) == SlotOf(t) + i

\* The producer writes the next slot of its reservation slice
WriteSlot(r) ==
    /\ prod[r].pc \in {"writing", "holding"}
    /\ prod[r].wr < prod[r].len
    /\ buffer' = [buffer EXCEPT
            ![r][SliceSlot(prod[r].t, prod[r].wr)] = <<r, nextVal[r]>>]
    /\ nextVal' = [nextVal EXCEPT ![r] = @ + 1]
    /\ prod' = [prod EXCEPT ![r].wr = @ + 1]
    /\ UNCHANGED <<tail, head, cached_head, cached_tail, closed, active,
                   producer_count, ch_closed, cons, reg, closer, sent,
                   delivered, batches, obs, quota, handed, streamVars, dropped>>

\* The values in the k slots that start at sequence t of ring r
SlotValues(r, t, k) == [j \in 1 .. k |-> buffer[r][SlotOf(t + j - 1)]]

\* Variant: the commit publishes one slot more than it was given
NewTailSkipping(t, k) == t + k + 1

\* Ring::commit_internal: the tail value stored
NewTail(t, k) == t + k

\* Ring::commit_internal(k): Release-store of the advanced tail
CommitInternal(r, k) ==
    /\ tail' = [tail EXCEPT ![r] = NewTail(tail[r], k)]
    /\ sent' = [sent EXCEPT ![r] = @ \o SlotValues(r, tail[r], k)]
    /\ batches' = [batches EXCEPT ![r] = @ \cup {NewTail(tail[r], k)}]

\* A call on the reservation returns: the call and its argument stay
\* observable next to the outcome
ReturnedFrom(op, k, res, ret) ==
    [Returned(res, ret) EXCEPT !.op = op, !.n = k]

\* Variant: Ring::send reports the length of its input
SendCountRequested(n, len) == n

\* Ring::send: the count returned is the length of the slice granted
SendCount(n, len) == len

\* Ring::push / Ring::send: reservation.commit() after the slice is filled;
\* send returns its count (the length of its input stays observable)
CommitFilled(r) ==
    /\ prod[r].pc = "writing"
    /\ prod[r].wr = prod[r].len
    /\ CommitInternal(r, prod[r].len)
    /\ prod' = [prod EXCEPT ![r] =
            IF prod[r].op = "send"
            THEN ReturnedFrom("send", prod[r].n, "Committed",
                              SendCount(prod[r].n, prod[r].len))
            ELSE Returned("Committed", prod[r].len)]
    /\ UNCHANGED <<head, cached_head, cached_tail, closed, buffer, active,
                   producer_count, ch_closed, cons, reg, closer, nextVal,
                   delivered, obs, quota, handed, streamVars, dropped>>

\* Reservation::commit
Commit(r) ==
    /\ prod[r].pc = "holding"
    /\ prod[r].wr = prod[r].len
    /\ CommitInternal(r, prod[r].len)
    /\ prod' = [prod EXCEPT ![r] =
            ReturnedFrom("commit", 0, "Committed", prod[r].len)]
    /\ UNCHANGED <<head, cached_head, cached_tail, closed, buffer, active,
                   producer_count, ch_closed, cons, reg, closer, nextVal,
                   delivered, obs, quota, handed, streamVars, dropped>>

\* Reservation::try_commit_n(k)
TryCommitN(r) ==
    \E k \in 0 .. (Capacity + 1) :
        /\ prod[r].pc = "holding"
        /\ IF k > prod[r].len
           THEN /\ prod' = [prod EXCEPT ![r] =
                        [ReturnedFrom("try_commit_n", k, "CommitError", k)
                            EXCEPT !.len = prod[r].len]]
                /\ UNCHANGED <<tail, sent, batches>>
           ELSE /\ k <= prod[r].wr
                /\ CommitInternal(r, k)
                /\ prod' = [prod EXCEPT ![r] =
                        ReturnedFrom("try_commit_n", k, "Committed", k)]
        /\ UNCHANGED <<head, cached_head, cached_tail, closed, buffer,
                       active, producer_count, ch_closed, cons, reg, closer,
                       nextVal, delivered, obs, quota, handed, streamVars, dropped>>

\* Reservation::commit_up_to(k)
CommitUpTo(r) ==
    \E k \in 0 .. (Capacity + 1) :
        /\ prod[r].pc = "holding"
        /\ Min(k, prod[r].len) <= prod[r].wr
        /\ CommitInternal(r, Min(k, prod[r].len))
        /\ prod' = [prod EXCEPT ![r] =
                ReturnedFrom("commit_up_to", k, "Committed",
                             Min(k, prod[r].len))]
        /\ UNCHANGED <<head, cached_head, cached_tail, closed, buffer,
                       active, producer_count, ch_closed, cons, reg, closer,
                       nextVal, delivered, obs, quota, handed, streamVars, dropped>>

\* Variant: dropping a reservation publishes the slots written so far
DropPublishesWritten(wr) == wr

\* Number of slots published when a reservation is dropped (Reservation
\* has no Drop impl)
DropPublishes(wr) == 0

\* The reservation goes out of scope without a commit
DropReservation(r) ==
    /\ prod[r].pc = "holding"
    /\ prod' = [prod EXCEPT ![r] =
            [Returned("Dropped", 0) EXCEPT !.wr = prod[r].wr]]
    /\ IF DropPublishes(prod[r].wr) = 0
       THEN UNCHANGED <<tail, sent, batches>>
       ELSE CommitInternal(r, DropPublishes(prod[r].wr))
    /\ UNCHANGED <<head, cached_head, cached_tail, closed, buffer, active,
                   producer_count, ch_closed, cons, reg, closer, nextVal,
                   delivered, obs, quota, handed, streamVars, dropped>>

\* Variant: close flips the flag it finds
ClosedStoreFlipped(flag) == ~flag

\* Ring::close: the value stored into the closed flag
ClosedStore(flag) == TRUE

\* Producer::close / Ring::close
CloseRing(r) ==
    /\ prod[r].pc # "none"
    /\ closed' = [closed EXCEPT ![r] = ClosedStore(@)]
    /\ UNCHANGED <<tail, head, cached_head, cached_tail, buffer, active,
                   producer_count, ch_closed, prod, cons, reg, closer,
                   nextVal, sent, delivered, batches, obs, quota, handed, streamVars, dropped>>

\* ---------------------------------------------------------------------
\* Ring: consumer side (metrics are disabled in the configuration modelled)
\* ---------------------------------------------------------------------

\* Variant: the channel keeps only the count of the last ring
AddConsumedLast(total, consumed) == consumed

\* Channel::consume_all*: total += consumed
AddConsumed(total, consumed) == total + consumed

\* Variant: every ring is given the whole limit
RemainingIgnoresTotal(max_total, total) == max_total

\* Channel::consume_all_up_to*: remaining = max_total - total
Remaining(max_total, total) == max_total - total

\* Return of a ring drain that consumed `consumed` items: the direct caller
\* gets the count; Channel::consume_all* adds it to total and moves on to the
\* next ring, or returns total after the last ring or at the limit
AfterRing(c, consumed) ==
    IF ~c.chan
    THEN [IdleConsumer EXCEPT !.ret = consumed]
    ELSE IF c.i + 1 >= c.count
            \/ (c.op = "upto"
                    /\ AddConsumed(c.total, consumed) >= c.max_total)
         THEN [IdleConsumer EXCEPT !.ret = AddConsumed(c.total, consumed)]
         ELSE [c EXCEPT !.pc = "begin", !.i = c.i + 1,
                        !.total = AddConsumed(c.total, consumed),
                        !.max = Remaining(c.max_total,
                                          AddConsumed(c.total, consumed)),
                        !.head = 0, !.tail = 0, !.pos = 0, !.n = 0,
                        !.to_consume = 0]

\* Variant: the bounded drain ignores its limit
ToConsumeUnbounded(avail, max_items) == avail

\* Ring::consume_up_to: to_consume = avail.min(max_items)
ToConsume(avail, max_items) == Min(avail, max_items)

\* Entry of Ring::consume_batch[_owned] / consume_up_to[_owned] on ring
\* c.i: the max_items test, the loads of head and tail, the empty test
BeginOn(c) ==
    IF c.op = "upto" /\ c.max = 0 THEN AfterRing(c, 0)
    ELSE LET h == head[c.i]
             t == tail[c.i]
             avail == WrappingSub(t, h)
         IN IF avail = 0 THEN AfterRing(c, 0)
            ELSE [c EXCEPT !.pc = "loop", !.head = h, !.tail = t,
                           !.pos = h, !.n = 0, !.max = 0,
                           !.to_consume = IF c.op = "upto"
                                          THEN ToConsume(avail, c.max)
                                          ELSE avail]

\* Ring::consume_batch, consume_batch_owned, consume_up_to and
\* consume_up_to_owned called directly on ring r
RingDrain(r) ==
    /\ cons.pc = "idle"
    /\ prod[r].pc # "none"
    /\ \E op \in {"batch", "upto"}, owned \in BOOLEAN, m \in 0 .. Capacity :
            /\ (op = "batch") => (m = 0)
            /\ cons' = BeginOn([IdleConsumer EXCEPT !.op = op,
                                    !.owned = owned, !.i = r, !.max = m])
    /\ UNCHANGED <<ringVars, active, producer_count, ch_closed, prod, reg,
                   closer, nextVal, sent, delivered, batches, obs, quota, handed, streamVars, dropped>>

\* Channel::consume_all*: the drain of the next ring starts
DrainBegin ==
    /\ cons.pc = "begin"
    /\ cons' = BeginOn(cons)
    /\ UNCHANGED <<ringVars, active, producer_count, ch_closed, prod, reg,
                   closer, nextVal, sent, delivered, batches, obs, quota, handed, streamVars, dropped>>

\* Variant: both drain loops stop one item early
LoopStopsEarly(c, pos, n) ==
    IF c.op = "upto" THEN n + 1 < c.to_consume ELSE pos + 1 < c.tail

\* Does the drain loop run another iteration after n items at position pos
LoopContinues(c, pos, n) ==
    IF c.op = "upto" THEN n < c.to_consume ELSE pos # c.tail

\* Variant: the drain reads the slot one position ahead
ReadSlotAhead(pos) == SlotOf(pos + 1)

\* Slot read by one iteration of a drain loop: (pos as usize) & mask
ReadSlot(pos) == SlotOf(pos)

\* One iteration of a drain loop: assume_init_read of the slot at pos,
\* handler(item), pos += 1, count += 1, loop test
DrainRead ==
    /\ cons.pc = "loop"
    /\ LET item == buffer[cons.i][ReadSlot(cons.pos)]
       IN delivered' = [delivered EXCEPT ![item[1]] = Append(@, item)]
    /\ cons' = [cons EXCEPT
            !.pos = @ + 1, !.n = @ + 1,
            !.log = Append(@, cons.i),
            !.pc = IF LoopContinues(cons, cons.pos + 1, cons.n + 1)
                   THEN "loop" ELSE "store"]
    /\ UNCHANGED <<ringVars, active, producer_count, ch_closed, prod, reg,
                   closer, nextVal, sent, batches, obs, quota, handed, streamVars, dropped>>

\* Variant: the bounded drain publishes the observed tail as the new head
NewHeadAlwaysTail(c) == c.tail

\* Head value stored at the end of a drain: tail for the unbounded
\* variants, head + count for the bounded ones
NewHead(c) == IF c.op = "upto" THEN c.head + c.n ELSE c.tail

\* The single Release-store of head that ends a drain, and its return
DrainStore ==
    /\ cons.pc = "store"
    /\ head' = [head EXCEPT ![cons.i] = NewHead(cons)]
    /\ cons' = AfterRing(cons, cons.n)
    /\ batches' = [batches EXCEPT ![cons.i] =
                        {b \in @ : b >= NewHead(cons)}]
    /\ UNCHANGED <<tail, cached_head, cached_tail, closed, buffer, active,
                   producer_count, ch_closed, prod, reg, closer, nextVal,
                   sent, delivered, obs, quota, handed, streamVars, dropped>>

\* The thread panicked: rings[..count] with count > rings.len(), or a
\* debug assertion that failed
Panicked(rec) == [rec EXCEPT !.pc = "panicked"]

\* Ring::readable on ring r: the slice of the items that can be read in
\* place, from the cached tail or, when that shows nothing, from a fresh
\* Acquire-load of tail
Readable(r) ==
    /\ cons.pc = "idle"
    /\ prod[r].pc # "none"
    /\ LET h == head[r]
           stale == WrappingSub(cached_tail[r], h)
           ct == IF stale = 0 THEN tail[r] ELSE cached_tail[r]
           avail == WrappingSub(ct, h)
       IN /\ cached_tail' = [cached_tail EXCEPT ![r] = ct]
          /\ cons' = [IdleConsumer EXCEPT
                        !.op = "readable", !.i = r, !.head = h,
                        !.ret = IF avail = 0 THEN 0
                                ELSE Min(avail, Capacity - SlotOf(h))]
    /\ UNCHANGED <<tail, head, cached_head, closed, buffer, active,
                   producer_count, ch_closed, prod, reg, closer, nextVal,
                   sent, delivered, batches, obs, quota, handed, streamVars,
                   dropped>>

\* Variant: advance moves head back by n
NewHeadBackwards(h, n) == h - n

\* Ring::advance: new_head = head.wrapping_add(n)
NewHeadAdvanced(h, n) == h + n

\* Ring::advance(n) on ring r after the consumer has read n items of the
\* slice readable gave it. The items are not dropped. A build with debug
\* assertions panics when the new head would pass tail; a release build
\* stores it
Advance(r) ==
    /\ cons.pc = "idle"
    /\ cons.op = "readable"
    /\ cons.i = r
    /\ prod[r].pc # "none"
    /\ \E n \in 0 .. cons.ret, debug \in BOOLEAN :
            IF debug /\ NewHeadAdvanced(head[r], n) > tail[r]
            THEN /\ cons' = Panicked(cons)
                 /\ UNCHANGED <<head, batches>>
            ELSE /\ head' = [head EXCEPT ![r] = NewHeadAdvanced(@, n)]
                 /\ batches' = [batches EXCEPT ![r] =
                        {b \in @ : b >= NewHeadAdvanced(head[r], n)}]
                 /\ cons' = [IdleConsumer EXCEPT !.op = "advance", !.i = r,
                                                 !.n = n]
    /\ UNCHANGED <<tail, cached_head, cached_tail, closed, buffer, active,
                   producer_count, ch_closed, prod, reg, closer, nextVal,
                   sent, delivered, obs, quota, handed, streamVars, dropped>>

\* Drop for Ring, run by the last owner when no call is in progress:
\* drop_in_place of the count = tail - head slots from head on, in order
RingDrop(r) ==
    /\ prod[r].pc = "idle"
    /\ cons.pc = "idle"
    /\ LET count == WrappingSub(tail[r], head[r])
       IN dropped' = [dropped EXCEPT ![r] =
            IF count > Capacity
            THEN [done |-> TRUE, ub |-> TRUE, items |-> <<>>]
            ELSE [done |-> TRUE, ub |-> FALSE,
                  items |-> SlotValues(r, head[r], count)]]
    /\ prod' = [prod EXCEPT ![r] = NoProducer]
    /\ UNCHANGED <<ringVars, active, producer_count, ch_closed, cons, reg,
                   closer, nextVal, sent, delivered, batches, obs, quota,
                   handed, streamVars>>

\* ---------------------------------------------------------------------
\* Specification of the life cycle of the items of one ring: commits,
\* in-place reads, drains and the drop of the ring
\* ---------------------------------------------------------------------

InitLife ==
    /\ InitRings
    /\ producer_count = 1
    /\ active = [r \in Rings |-> r = 0]
    /\ prod = [r \in Rings |-> IF r = 0 THEN IdleProducer ELSE NoProducer]
    /\ reg = [t \in RegThreads |-> IdleRegister]
    /\ quota = MaxLifeVal
    /\ handed = <<0>>
    /\ NoStream

\* The consumer of this specification reads in place before its first
\* drain only: consume_batch leaves cached_tail behind, and what readable
\* makes of a cached tail that head has passed is not the subject here
ReadInPlace(r) ==
    /\ delivered[r] = <<>>
    /\ Readable(r)

NextLife ==
    \/ Reserve(0)
    \/ ReserveSlow(0)
    \/ WriteSlot(0)
    \/ Commit(0)
    \/ RingDrain(0)
    \/ DrainRead
    \/ DrainStore
    \/ ReadInPlace(0)
    \/ Advance(0)
    \/ RingDrop(0)

SpecLife == InitLife /\ [][NextLife]_vars

\* ---------------------------------------------------------------------
\* Specification of a consumer that mixes Ring::recv (readable, then
\* advance) with the drains on one ring
\* ---------------------------------------------------------------------

InitCache ==
    /\ InitRings
    /\ producer_count = 1
    /\ active = [r \in Rings |-> r = 0]
    /\ prod = [r \in Rings |-> IF r = 0 THEN IdleProducer ELSE NoProducer]
    /\ reg = [t \in RegThreads |-> IdleRegister]
    /\ quota = MaxCacheVal
    /\ handed = <<0>>
    /\ NoStream

\* The consumer of this specification begins a call only while head has
\* not passed tail; once it has, the ring is beyond repair and the
\* specification follows the consumer no further
CacheReadable(r) ==
    /\ head[r] <= tail[r]
    /\ Readable(r)

CacheDrain(r) ==
    /\ head[r] <= tail[r]
    /\ RingDrain(r)

NextCache ==
    \/ Reserve(0)
    \/ ReserveSlow(0)
    \/ WriteSlot(0)
    \/ Commit(0)
    \/ CacheDrain(0)
    \/ DrainRead
    \/ DrainStore
    \/ CacheReadable(0)
    \/ Advance(0)

SpecCache == InitCache /\ [][NextCache]_vars

\* ---------------------------------------------------------------------
\* Specification of reserve_with_backoff on one ring
\* ---------------------------------------------------------------------

InitBackoff ==
    /\ InitRings
    /\ producer_count = 1
    /\ active = [r \in Rings |-> r = 0]
    /\ prod = [r \in Rings |-> IF r = 0 THEN IdleProducer ELSE NoProducer]
    /\ reg = [t \in RegThreads |-> IdleRegister]
    /\ quota = MaxBackoffVal
    /\ handed = <<0>>
    /\ NoStream

\* Steps of a reserve_with_backoff call in progress
BackoffStep(r) ==
    \/ ReserveSlow(r)
    \/ RwbCheck(r)

NextBackoff ==
    \/ ReserveWithBackoff(0)
    \/ BackoffStep(0)
    \/ WriteSlot(0)
    \/ Commit(0)
    \/ CloseRing(0)
    \/ RingDrain(0)
    \/ DrainRead
    \/ DrainStore

SpecBackoff == InitBackoff /\ [][NextBackoff]_vars

\* A thread inside reserve_with_backoff keeps running; nothing makes the
\* consumer drain
FairSpecBackoff == SpecBackoff /\ WF_vars(BackoffStep(0))

\* ---------------------------------------------------------------------
\* Specification of one ring with its producer and its consumer
\* ---------------------------------------------------------------------

\* A channel whose first producer has registered
Init ==
    /\ InitRings
    /\ producer_count = 1
    /\ active = [r \in Rings |-> r = 0]
    /\ prod = [r \in Rings |-> IF r = 0 THEN IdleProducer ELSE NoProducer]
    /\ reg = [t \in RegThreads |-> IdleRegister]
    /\ quota = MaxVal
    /\ handed = <<0>>
    /\ NoStream

ProducerStep(r) ==
    \/ Reserve(r)
    \/ Push(r)
    \/ Send(r)
    \/ ReserveSlow(r)
    \/ WriteSlot(r)
    \/ CommitFilled(r)
    \/ Commit(r)
    \/ TryCommitN(r)
    \/ CommitUpTo(r)
    \/ DropReservation(r)

Next ==
    \/ \E r \in Rings : ProducerStep(r)
    \/ \E r \in Rings : CloseRing(r)
    \/ \E r \in Rings : RingDrain(r)
    \/ DrainRead
    \/ DrainStore

Spec == Init /\ [][Next]_vars

\* ---------------------------------------------------------------------
\* Channel: consumer fan-in and close
\* ---------------------------------------------------------------------

\* Channel::consume_all, consume_all_owned, consume_all_up_to and
\* consume_all_up_to_owned: load of producer_count, slice of the rings, and
\* the loop tests that precede the first ring drain
ChanDrainCall(op, owned, m) ==
    IF producer_count > MaxProducers THEN Panicked(IdleConsumer)
    ELSE IF producer_count = 0 \/ (op = "upto" /\ m = 0)
         THEN IdleConsumer
         ELSE [IdleConsumer EXCEPT
                    !.pc = "begin", !.chan = TRUE, !.op = op,
                    !.owned = owned, !.count = producer_count,
                    !.max_total = m, !.max = m]

\* A channel drain called by the consumer thread itself
ChanDrain ==
    /\ cons.pc = "idle"
    /\ \E op \in {"batch", "upto"}, owned \in BOOLEAN, m \in 0 .. Capacity :
            /\ (op = "batch") => (m = 0)
            /\ cons' = ChanDrainCall(op, owned, m)
    /\ UNCHANGED <<ringVars, active, producer_count, ch_closed, prod, reg,
                   closer, nextVal, sent, delivered, batches, obs, quota, handed, streamVars, dropped>>

\* Channel::close: store of the channel-level closed flag
CloseStart ==
    /\ closer.pc = "idle"
    /\ ch_closed' = TRUE
    /\ closer' = [IdleCloser EXCEPT !.pc = "load"]
    /\ UNCHANGED <<ringVars, active, producer_count, prod, cons, reg,
                   nextVal, sent, delivered, batches, obs, quota, handed, streamVars, dropped>>

\* Items committed and not yet handed to the handler
InFlight ==
    SumOver([r \in Rings |-> tail[r] - head[r]], Rings)
        - (IF cons.pc \in {"loop", "store"} THEN cons.n ELSE 0)

\* Items handed to the handler so far
Handled == SumOver([r \in Rings \cup {-1} |-> Len(delivered[r])],
                   Rings \cup {-1})

\* Channel::close returns. Ghost: the first close to complete records how
\* many items the handler will have seen once the T items in flight are
\* delivered, if no producer call is in progress at that moment
CloseReturns ==
    IF obs # NoObs THEN obs
    ELSE IF \A r \in Rings : prod[r].pc \in {"idle", "none"}
         THEN Handled + InFlight
         ELSE Unsettled

\* Channel::close: load of producer_count and slice of the rings
CloseLoad ==
    /\ closer.pc = "load"
    /\ closer' =
         IF producer_count > MaxProducers THEN Panicked(closer)
         ELSE IF producer_count = 0 THEN IdleCloser
              ELSE [closer EXCEPT !.pc = "rings", !.count = producer_count,
                                  !.i = 0]
    /\ obs' = IF producer_count = 0 THEN CloseReturns ELSE obs
    /\ UNCHANGED <<ringVars, active, producer_count, ch_closed, prod, cons,
                   reg, nextVal, sent, delivered, batches, quota, handed, streamVars, dropped>>

\* Channel::close: ring.close() for the next registered ring
CloseNextRing ==
    /\ closer.pc = "rings"
    /\ closed' = [closed EXCEPT ![closer.i] = ClosedStore(@)]
    /\ closer' = IF closer.i + 1 >= closer.count THEN IdleCloser
                  ELSE [closer EXCEPT !.i = @ + 1]
    /\ obs' = IF closer.i + 1 >= closer.count THEN CloseReturns ELSE obs
    /\ UNCHANGED <<tail, head, cached_head, cached_tail, buffer, active,
                   producer_count, ch_closed, prod, cons, reg, nextVal,
                   sent, delivered, batches, quota, handed, streamVars, dropped>>

\* ---------------------------------------------------------------------
\* Specification of the fan-in of two loaded rings
\* ---------------------------------------------------------------------

\* Number of items each producer has sent with one Producer::send before
\* the specification starts
Loaded == Capacity - 1

\* The items producer r has sent
LoadedItems(r) == [j \in 1 .. Loaded |-> <<r, j>>]

\* The channel after both producers registered and each sent Loaded items
InitFanIn ==
    /\ tail = [r \in Rings |-> Loaded]
    /\ head = [r \in Rings |-> 0]
    /\ cached_head = [r \in Rings |-> 0]
    /\ cached_tail = [r \in Rings |-> 0]
    /\ closed = [r \in Rings |-> FALSE]
    /\ buffer = [r \in Rings |-> [i \in Slots |->
                    IF i < Loaded THEN <<r, i + 1>> ELSE NoItem]]
    /\ ch_closed = FALSE
    /\ cons = IdleConsumer
    /\ closer = IdleCloser
    /\ nextVal = [r \in Rings |-> Loaded + 1]
    /\ sent = [r \in Rings |-> LoadedItems(r)]
    /\ delivered = [r \in Rings \cup {-1} |-> <<>>]
    /\ batches = [r \in Rings |-> {0, Loaded}]
    /\ obs = NoObs
    /\ dropped = [r \in Rings |-> NotDropped]
    /\ producer_count = MaxProducers
    /\ active = [r \in Rings |-> TRUE]
    /\ prod = [r \in Rings |-> Returned("Committed", Loaded)]
    /\ reg = [t \in RegThreads |-> IdleRegister]
    /\ quota = MaxProducers * Loaded + MaxFanInVal
    /\ handed = [j \in 1 .. MaxProducers |-> j - 1]
    /\ NoStream

NextFanIn ==
    \/ \E r \in Rings : Push(r)
    \/ \E r \in Rings : ReserveSlow(r)
    \/ \E r \in Rings : WriteSlot(r)
    \/ \E r \in Rings : CommitFilled(r)
    \/ ChanDrain
    \/ DrainBegin
    \/ DrainRead
    \/ DrainStore

SpecFanIn == InitFanIn /\ [][NextFanIn]_vars

\* ---------------------------------------------------------------------
\* Channel: registration
\* ---------------------------------------------------------------------

\* Channel::register: load of the channel-level closed flag
RegStart(t) ==
    /\ reg[t].pc = "idle"
    /\ reg' = [reg EXCEPT ![t] =
            IF ch_closed
            THEN [IdleRegister EXCEPT !.pc = "done", !.result = "Closed"]
            ELSE [IdleRegister EXCEPT !.pc = "add"]]
    /\ UNCHANGED <<ringVars, active, producer_count, ch_closed, prod, cons,
                   closer, nextVal, sent, delivered, batches, obs, quota,
                   handed, streamVars, dropped>>

\* Variant: the cap test lets id = max_producers through
OverCapLoose(id) == id > MaxProducers

\* Channel::register: id >= max_producers
OverCap(id) == id >= MaxProducers

\* Channel::register: producer_count.fetch_add(1) and the cap test
RegFetchAdd(t) ==
    /\ reg[t].pc = "add"
    /\ producer_count' = producer_count + 1
    /\ reg' = [reg EXCEPT ![t].id = producer_count,
                          ![t].pc = IF OverCap(producer_count)
                                    THEN "rollback" ELSE "activate"]
    /\ handed' = IF OverCap(producer_count) THEN handed
                  ELSE Append(handed, producer_count)
    /\ UNCHANGED <<ringVars, active, ch_closed, prod, cons, closer, nextVal,
                   sent, delivered, batches, obs, quota, streamVars, dropped>>

\* Variant: the failing call forgets its rollback
NotRolledBack(count) == count

\* Channel::register: the value left by producer_count.fetch_sub(1)
RolledBack(count) == count - 1

\* Channel::register: rollback and Err(TooManyProducers { max })
RegRollback(t) ==
    /\ reg[t].pc = "rollback"
    /\ producer_count' = RolledBack(producer_count)
    /\ reg' = [reg EXCEPT ![t].pc = "done",
                          ![t].result = "TooManyProducers",
                          ![t].max = MaxProducers]
    /\ UNCHANGED <<ringVars, active, ch_closed, prod, cons, closer, nextVal,
                   sent, delivered, batches, obs, quota, handed, streamVars, dropped>>

\* Channel::register: set_active(true) and Ok(Producer { id })
RegActivate(t) ==
    /\ reg[t].pc = "activate"
    /\ active' = [active EXCEPT ![reg[t].id] = TRUE]
    /\ prod' = [prod EXCEPT ![reg[t].id] = IdleProducer]
    /\ reg' = [reg EXCEPT ![t].pc = "done", ![t].result = "Ok"]
    /\ UNCHANGED <<ringVars, producer_count, ch_closed, cons, closer,
                   nextVal, sent, delivered, batches, obs, quota, handed, streamVars, dropped>>

\* The producer handle of ring r is dropped (Producer has no Drop impl:
\* nothing but the handle goes away)
DropProducer(r) ==
    /\ prod[r].pc = "idle"
    /\ prod' = [prod EXCEPT ![r] = [IdleProducer EXCEPT !.pc = "dropped"]]
    /\ UNCHANGED <<ringVars, active, producer_count, ch_closed, cons, reg,
                   closer, nextVal, sent, delivered, batches, obs, quota,
                   handed, streamVars, dropped>>

\* ---------------------------------------------------------------------
\* Specification of concurrent registrations on a fresh channel
\* ---------------------------------------------------------------------

InitRegister ==
    /\ InitRings
    /\ producer_count = 0
    /\ active = [r \in Rings |-> FALSE]
    /\ prod = [r \in Rings |-> NoProducer]
    /\ reg = [t \in RegThreads |-> IdleRegister]
    /\ quota = 0
    /\ handed = <<>>
    /\ NoStream

NextRegister ==
    \/ \E t \in RegThreads : RegStart(t)
    \/ \E t \in RegThreads : RegFetchAdd(t)
    \/ \E t \in RegThreads : RegRollback(t)
    \/ \E t \in RegThreads : RegActivate(t)
    \/ \E r \in Rings : DropProducer(r)
    \/ CloseStart
    \/ CloseLoad
    \/ CloseNextRing

SpecRegister == InitRegister /\ [][NextRegister]_vars

\* ---------------------------------------------------------------------
\* Specification of a channel with all its producers registered
\* ---------------------------------------------------------------------

\* Number of items producer 0 has pushed, one push at a time, and the
\* consumer has drained with one consume_all, before the specification
\* starts: the next push but one of producer 0 finds its cached head stale
Warmup == Capacity - 1

\* The items of the warm-up
WarmupItems == [j \in 1 .. Warmup |-> <<0, j>>]

\* The channel after both producers registered and the warm-up ran
InitChannel ==
    /\ tail = [r \in Rings |-> IF r = 0 THEN Warmup ELSE 0]
    /\ head = [r \in Rings |-> IF r = 0 THEN Warmup ELSE 0]
    /\ cached_head = [r \in Rings |-> 0]
    /\ cached_tail = [r \in Rings |-> 0]
    /\ closed = [r \in Rings |-> FALSE]
    /\ buffer = [r \in Rings |-> [i \in Slots |->
                    IF r = 0 /\ i < Warmup THEN <<0, i + 1>> ELSE NoItem]]
    /\ ch_closed = FALSE
    /\ cons = [IdleConsumer EXCEPT !.ret = Warmup]
    /\ closer = IdleCloser
    /\ nextVal = [r \in Rings |-> IF r = 0 THEN Warmup + 1 ELSE 1]
    /\ sent = [r \in Rings |-> IF r = 0 THEN WarmupItems ELSE <<>>]
    /\ delivered = [r \in Rings \cup {-1} |->
                        IF r = 0 THEN WarmupItems ELSE <<>>]
    /\ batches = [r \in Rings |-> IF r = 0 THEN {Warmup} ELSE {0}]
    /\ obs = NoObs
    /\ dropped = [r \in Rings |-> NotDropped]
    /\ producer_count = MaxProducers
    /\ active = [r \in Rings |-> TRUE]
    /\ prod = [r \in Rings |->
                IF r = 0 THEN [IdleProducer EXCEPT !.res = "Committed",
                                                   !.ret = 1]
                ELSE IdleProducer]
    /\ reg = [t \in RegThreads |-> IdleRegister]
    /\ quota = Warmup + MaxChanVal
    /\ handed = [j \in 1 .. MaxProducers |-> j - 1]
    /\ NoStream

NextChannel ==
    \/ \E r \in Rings : Push(r)
    \/ \E r \in Rings : ReserveSlow(r)
    \/ \E r \in Rings : WriteSlot(r)
    \/ \E r \in Rings : CommitFilled(r)
    \/ ChanDrain
    \/ DrainBegin
    \/ DrainRead
    \/ DrainStore
    \/ CloseStart
    \/ CloseLoad
    \/ CloseNextRing

SpecChannel == InitChannel /\ [][NextChannel]_vars

\* ---------------------------------------------------------------------
\* Specification of the consumer-side channel operations next to
\* concurrent registrations: one producer is registered, has pushed the
\* items of the warm-up, which the consumer has drained, and pushes on;
\* two threads call register, the consumer drains, a thread closes
\* ---------------------------------------------------------------------

InitSlice ==
    /\ tail = [r \in Rings |-> IF r = 0 THEN Warmup ELSE 0]
    /\ head = [r \in Rings |-> IF r = 0 THEN Warmup ELSE 0]
    /\ cached_head = [r \in Rings |-> 0]
    /\ cached_tail = [r \in Rings |-> 0]
    /\ closed = [r \in Rings |-> FALSE]
    /\ buffer = [r \in Rings |-> [i \in Slots |->
                    IF r = 0 /\ i < Warmup THEN <<0, i + 1>> ELSE NoItem]]
    /\ ch_closed = FALSE
    /\ cons = [IdleConsumer EXCEPT !.ret = Warmup]
    /\ closer = IdleCloser
    /\ nextVal = [r \in Rings |-> IF r = 0 THEN Warmup + 1 ELSE 1]
    /\ sent = [r \in Rings |-> IF r = 0 THEN WarmupItems ELSE <<>>]
    /\ delivered = [r \in Rings \cup {-1} |->
                        IF r = 0 THEN WarmupItems ELSE <<>>]
    /\ batches = [r \in Rings |-> IF r = 0 THEN {Warmup} ELSE {0}]
    /\ obs = NoObs
    /\ dropped = [r \in Rings |-> NotDropped]
    /\ producer_count = 1
    /\ active = [r \in Rings |-> r = 0]
    /\ prod = [r \in Rings |->
                IF r = 0 THEN [IdleProducer EXCEPT !.res = "Committed",
                                                   !.ret = 1]
                ELSE NoProducer]
    /\ reg = [t \in RegThreads |-> IdleRegister]
    /\ quota = Warmup + MaxSliceVal
    /\ handed = <<0>>
    /\ NoStream

NextSlice ==
    \/ Push(0)
    \/ ReserveSlow(0)
    \/ WriteSlot(0)
    \/ CommitFilled(0)
    \/ ChanDrain
    \/ DrainBegin
    \/ DrainRead
    \/ DrainStore
    \/ CloseStart
    \/ CloseLoad
    \/ CloseNextRing
    \/ \E t \in FactoryThreads : RegStart(t)
    \/ \E t \in FactoryThreads : RegFetchAdd(t)
    \/ \E t \in FactoryThreads : RegRollback(t)
    \/ \E t \in FactoryThreads : RegActivate(t)

SpecSlice == InitSlice /\ [][NextSlice]_vars

\* ---------------------------------------------------------------------
\* Specification of a producer that takes a second reservation from its
\* ring while it holds the first
\* ---------------------------------------------------------------------

\* Ring::reserve(n) called while the first reservation is held: the fast
\* path on the cached head, else the slow path, which refreshes it. tail
\* is where the first reservation left it
ReserveSecond(r) ==
    /\ prod[r].pc = "holding"
    /\ prod[r].second.pc = "none"
    /\ \E n \in 1 .. Capacity :
            LET t == tail[r]
                fast == FastPathHasSpace(Space(t, cached_head[r]), n)
                full == SlowPathFull(Space(t, head[r]), n)
            IN /\ Written + (prod[r].len - prod[r].wr)
                        + MakeReservationLen(t, n) <= quota
               /\ cached_head' = [cached_head EXCEPT ![r] =
                        IF fast THEN @ ELSE head[r]]
               /\ prod' = [prod EXCEPT ![r].second =
                        IF ~fast /\ full THEN NoSecond
                        ELSE [pc |-> "holding", t |-> t,
                              len |-> MakeReservationLen(t, n), wr |-> 0]]
    /\ UNCHANGED <<tail, head, cached_tail, closed, buffer, active,
                   producer_count, ch_closed, cons, reg, closer, nextVal,
                   sent, delivered, batches, obs, quota, handed, streamVars,
                   dropped>>

\* The producer writes the next slot of the slice of its second
\* reservation
WriteSecond(r) ==
    /\ prod[r].second.pc = "holding"
    /\ prod[r].second.wr < prod[r].second.len
    /\ buffer' = [buffer EXCEPT
            ![r][SliceSlot(prod[r].second.t, prod[r].second.wr)] =
                <<r, nextVal[r]>>]
    /\ nextVal' = [nextVal EXCEPT ![r] = @ + 1]
    /\ prod' = [prod EXCEPT ![r].second.wr = @ + 1]
    /\ UNCHANGED <<tail, head, cached_head, cached_tail, closed, active,
                   producer_count, ch_closed, cons, reg, closer, sent,
                   delivered, batches, obs, quota, handed, streamVars, dropped>>

\* Ring::commit_internal(k) as a build with debug assertions runs it:
\* debug_assert_bounded_count panics when the new tail is more than the
\* capacity ahead of head; a release build stores the new tail
CommitChecked(r, k, after) ==
    \E debug \in BOOLEAN :
        IF debug /\ WrappingSub(NewTail(tail[r], k), head[r]) > Capacity
        THEN /\ prod' = [prod EXCEPT ![r] = Panicked(@)]
             /\ UNCHANGED <<tail, sent, batches>>
        ELSE /\ CommitInternal(r, k)
             /\ prod' = [prod EXCEPT ![r] = after]

\* Reservation::commit on the first reservation; the second, if there is
\* one, stays with the producer
CommitFirst(r) ==
    /\ prod[r].pc = "holding"
    /\ prod[r].wr = prod[r].len
    /\ CommitChecked(r, prod[r].len,
            IF prod[r].second.pc = "none"
            THEN ReturnedFrom("commit", 0, "Committed", prod[r].len)
            ELSE [prod[r] EXCEPT !.pc = "second_only"])
    /\ UNCHANGED <<head, cached_head, cached_tail, closed, buffer, active,
                   producer_count, ch_closed, cons, reg, closer, nextVal,
                   delivered, obs, quota, handed, streamVars, dropped>>

\* Reservation::commit on the second reservation, before or after the
\* commit of the first
CommitSecond(r) ==
    /\ prod[r].pc \in {"holding", "second_only"}
    /\ prod[r].second.pc = "holding"
    /\ prod[r].second.wr = prod[r].second.len
    /\ CommitChecked(r, prod[r].second.len,
            IF prod[r].pc = "holding"
            THEN [prod[r] EXCEPT !.second = NoSecond]
            ELSE ReturnedFrom("commit", 0, "Committed", prod[r].second.len))
    /\ UNCHANGED <<head, cached_head, cached_tail, closed, buffer, active,
                   producer_count, ch_closed, cons, reg, closer, nextVal,
                   delivered, obs, quota, handed, streamVars, dropped>>

\* The ring after the warm-up: its producer has pushed Warmup items, one
\* push at a time, and the consumer has drained them with one drain
InitOverlap ==
    /\ tail = [r \in Rings |-> IF r = 0 THEN Warmup ELSE 0]
    /\ head = [r \in Rings |-> IF r = 0 THEN Warmup ELSE 0]
    /\ cached_head = [r \in Rings |-> 0]
    /\ cached_tail = [r \in Rings |-> 0]
    /\ closed = [r \in Rings |-> FALSE]
    /\ buffer = [r \in Rings |-> [i \in Slots |->
                    IF r = 0 /\ i < Warmup THEN <<0, i + 1>> ELSE NoItem]]
    /\ ch_closed = FALSE
    /\ cons = [IdleConsumer EXCEPT !.ret = Warmup]
    /\ closer = IdleCloser
    /\ nextVal = [r \in Rings |-> IF r = 0 THEN Warmup + 1 ELSE 1]
    /\ sent = [r \in Rings |-> IF r = 0 THEN WarmupItems ELSE <<>>]
    /\ delivered = [r \in Rings \cup {-1} |->
                        IF r = 0 THEN WarmupItems ELSE <<>>]
    /\ batches = [r \in Rings |-> IF r = 0 THEN {Warmup} ELSE {0}]
    /\ obs = NoObs
    /\ dropped = [r \in Rings |-> NotDropped]
    /\ producer_count = 1
    /\ active = [r \in Rings |-> r = 0]
    /\ prod = [r \in Rings |->
                IF r = 0 THEN [IdleProducer EXCEPT !.res = "Committed",
                                                   !.ret = 1]
                ELSE NoProducer]
    /\ reg = [t \in RegThreads |-> IdleRegister]
    /\ quota = Warmup + MaxOverlapVal
    /\ handed = <<0>>
    /\ NoStream

NextOverlap ==
    \/ Reserve(0)
    \/ ReserveSlow(0)
    \/ ReserveSecond(0)
    \/ WriteSlot(0)
    \/ WriteSecond(0)
    \/ CommitFirst(0)
    \/ CommitSecond(0)
    \/ RingDrain(0)
    \/ DrainRead
    \/ DrainStore

SpecOverlap == InitOverlap /\ [][NextOverlap]_vars

\* ---------------------------------------------------------------------
\* Specification of a caller that wants exactly n items written: it
\* reserves, fills and commits what it was granted, and reserves the rest
\* until n items are committed
\* ---------------------------------------------------------------------

\* The caller begins with Ring::reserve(n)
FillCall(r) ==
    /\ prod[r].pc = "idle"
    /\ \E n \in 1 .. Capacity :
            /\ Written + n <= quota
            /\ prod' = [prod EXCEPT ![r] =
                    ReserveFast(r, [IdleProducer EXCEPT
                        !.op = "fill", !.n = n,
                        !.fill = [n |-> n, pieces |-> 1, done |-> 0,
                                  free |-> Space(tail[r], head[r]),
                                  t0 |-> tail[r]]])]
    /\ UNCHANGED <<ringVars, active, producer_count, ch_closed, cons, reg,
                   closer, nextVal, sent, delivered, batches, obs, quota,
                   handed, streamVars, dropped>>

\* Reservation::commit of the slice the caller has filled
FillCommit(r) ==
    /\ prod[r].pc = "holding"
    /\ prod[r].op = "fill"
    /\ prod[r].wr = prod[r].len
    /\ CommitInternal(r, prod[r].len)
    /\ prod' = [prod EXCEPT ![r].pc = "fill_next",
                            ![r].fill.done = @ + prod[r].len]
    /\ UNCHANGED <<head, cached_head, cached_tail, closed, buffer, active,
                   producer_count, ch_closed, cons, reg, closer, nextVal,
                   delivered, obs, quota, handed, streamVars, dropped>>

\* The caller's loop test after a commit: done, or Ring::reserve of what
\* is left
FillNext(r) ==
    /\ prod[r].pc = "fill_next"
    /\ prod' = [prod EXCEPT ![r] =
            IF prod[r].fill.done >= prod[r].fill.n
            THEN [Returned("Committed", prod[r].fill.done)
                    EXCEPT !.fill = prod[r].fill]
            ELSE ReserveFast(r, [prod[r] EXCEPT
                    !.n = prod[r].fill.n - prod[r].fill.done,
                    !.fill.pieces = @ + 1])]
    /\ UNCHANGED <<ringVars, active, producer_count, ch_closed, cons, reg,
                   closer, nextVal, sent, delivered, batches, obs, quota,
                   handed, streamVars, dropped>>

InitFill ==
    /\ InitRings
    /\ producer_count = 1
    /\ active = [r \in Rings |-> r = 0]
    /\ prod = [r \in Rings |-> IF r = 0 THEN IdleProducer ELSE NoProducer]
    /\ reg = [t \in RegThreads |-> IdleRegister]
    /\ quota = MaxFillVal
    /\ handed = <<0>>
    /\ NoStream

NextFill ==
    \/ FillCall(0)
    \/ ReserveSlow(0)
    \/ WriteSlot(0)
    \/ FillCommit(0)
    \/ FillNext(0)
    \/ RingDrain(0)
    \/ DrainRead
    \/ DrainStore

SpecFill == InitFill /\ [][NextFill]_vars

\* ---------------------------------------------------------------------
\* Specification of close: the channel of SpecChannel with one producer
\* pushing, and Producer::close next to Channel::close, each called any
\* number of times
\* ---------------------------------------------------------------------

NextClose ==
    \/ Push(0)
    \/ ReserveSlow(0)
    \/ WriteSlot(0)
    \/ CommitFilled(0)
    \/ ChanDrain
    \/ DrainBegin
    \/ DrainRead
    \/ DrainStore
    \/ CloseStart
    \/ CloseLoad
    \/ CloseNextRing
    \/ \E r \in Rings : CloseRing(r)

SpecClose == InitChannel /\ [][NextClose]_vars

\* ---------------------------------------------------------------------
\* Async adapter: RingSender (one sender, on ring 0)
\* ---------------------------------------------------------------------

baseVars == <<ringVars, active, producer_count, ch_closed, prod, cons, reg,
              closer, nextVal, sent, delivered, batches, obs, quota, handed,
              dropped>>

\* Notify::notify_waiters on the space-available notifier: every task
\* registered at this moment is woken, no permit is stored
NotifyWaiters(snd) ==
    IF snd.pc = "waiting" THEN [snd EXCEPT !.pc = "woken"]
    ELSE IF snd.pc = "notified" THEN [snd EXCEPT !.pc = "fired"]
    ELSE snd

\* Variant: a failed call hands back an empty item
HandBackNothing(item) == NoItem

\* try_send: Err(item) gives the caller its item back
HandBack(item) == item

\* The call returns to the task
SenderReturns(result, back) ==
    [sender EXCEPT !.pc = "idle", !.result = result, !.back = back]

\* The task calls RingSender::send(item) or RingSender::try_send(item)
SendCall ==
    /\ sender.pc = "idle"
    /\ Written + 1 <= quota
    /\ \E kind \in {"send", "try_send"} :
            sender' = [IdleSender EXCEPT
                            !.pc = "check", !.kind = kind,
                            !.item = <<0, nextVal[0]>>,
                            !.t0 = tail[0], !.p0 = data_notify.pulses,
                            !.b0 = buffer[0]]
    /\ UNCHANGED <<baseVars, receiver, data_notify, shutdown>>

\* send / try_send: shutdown_state.is_closed() || producer.is_closed()
SendCheck ==
    /\ sender.pc = "check"
    /\ sender' =
            IF shutdown.closed \/ closed[0]
            THEN IF sender.kind = "send"
                 THEN SenderReturns("Closed", NoItem)
                 ELSE SenderReturns("Err", HandBack(sender.item))
            ELSE [sender EXCEPT !.pc = "reserve"]
    /\ UNCHANGED <<baseVars, receiver, data_notify, shutdown>>

\* send / try_send: producer.reserve(1), up to the end of its fast path;
\* the slot write and the commit follow as for Ring::push
SendReserve ==
    /\ sender.pc = "reserve"
    /\ prod[0].pc = "idle"
    /\ prod' = [prod EXCEPT ![0] =
            ReserveFast(0, [IdleProducer EXCEPT !.op = "push", !.n = 1,
                                                !.late = closed[0]])]
    /\ sender' = [sender EXCEPT !.pc = "reserving"]
    /\ UNCHANGED <<ringVars, active, producer_count, ch_closed, cons, reg,
                   closer, nextVal, sent, delivered, batches, obs, quota,
                   handed, receiver, data_notify, shutdown, dropped>>

\* send / try_send after reservation.commit(): data_notify.notify_one()
\* and Ok(())
SendCommitted ==
    /\ sender.pc = "reserving"
    /\ prod[0].pc = "idle"
    /\ prod[0].res = "Committed"
    /\ data_notify' = [permit |-> TRUE, pulses |-> data_notify.pulses + 1]
    /\ sender' = SenderReturns("Ok", NoItem)
    /\ UNCHANGED <<baseVars, receiver, shutdown>>

\* reserve returned None. try_send returns Err(item); send calls
\* backpressure_notify.notified() and awaits it: the task is registered
\* as a waiter from this step on
SendRefused ==
    /\ sender.pc = "reserving"
    /\ prod[0].pc = "idle"
    /\ prod[0].res = "None"
    /\ sender' = IF sender.kind = "try_send"
                  THEN SenderReturns("Err", HandBack(sender.item))
                  ELSE [sender EXCEPT !.pc = "waiting"]
    /\ UNCHANGED <<baseVars, receiver, data_notify, shutdown>>

\* send, resumed by the notifier: shutdown_state.is_closed(), then retry
SendWoken ==
    /\ sender.pc = "woken"
    /\ sender' = IF shutdown.closed THEN SenderReturns("Closed", NoItem)
                  ELSE [sender EXCEPT !.pc = "check", !.retries = @ + 1]
    /\ UNCHANGED <<baseVars, receiver, data_notify, shutdown>>

\* ---------------------------------------------------------------------
\* Async adapter: Sink for RingSender
\* ---------------------------------------------------------------------

\* A Sink method returns to the task; the item it had in hand is gone
SinkReturns(snd, result) ==
    [snd EXCEPT !.pc = "idle", !.result = result, !.item = NoItem]

\* Entry of poll_ready, start_send, poll_flush or poll_close: the closed
\* test, then pending_item.take() or the item of start_send in hand
SinkEnter(kind) ==
    LET snd == [sender EXCEPT !.kind = kind, !.result = "-",
                              !.woken = FALSE]
    IN IF shutdown.closed \/ closed[0]
       THEN SinkReturns(
                [snd EXCEPT !.ready =
                    IF kind \in {"poll_ready", "start_send"}
                    THEN FALSE ELSE @], "Closed")
       ELSE IF kind = "start_send"
       THEN [snd EXCEPT !.pc = "reserve", !.ready = FALSE,
                        !.item = <<0, Len(sender.accepted) + 1>>]
       ELSE IF sender.pending_item # NoItem
       THEN [snd EXCEPT !.pc = "reserve",
                        !.item = sender.pending_item,
                        !.pending_item = NoItem]
       ELSE IF kind = "poll_close"
       THEN [snd EXCEPT !.pc = "closing"]
       ELSE SinkReturns(
                [snd EXCEPT !.ready = (kind = "poll_ready") \/ @],
                "Ok")

\* The task calls poll_ready, start_send (only with a Ready(Ok) of
\* poll_ready not yet used), poll_flush or poll_close
SinkCall ==
    /\ sender.pc = "idle"
    /\ \E kind \in {"poll_ready", "start_send", "poll_flush", "poll_close"} :
         /\ (kind = "start_send") =>
                (sender.ready /\ Len(sender.accepted) < quota)
         /\ sender' = SinkEnter(kind)
    /\ UNCHANGED <<baseVars, receiver, data_notify, shutdown>>

\* reservation.as_mut_slice()[0] = MaybeUninit::new(item)
SinkWrite ==
    /\ sender.pc = "reserving"
    /\ prod[0].pc = "writing"
    /\ prod[0].wr < prod[0].len
    /\ buffer' = [buffer EXCEPT
            ![0][SliceSlot(prod[0].t, prod[0].wr)] = sender.item]
    /\ nextVal' = [nextVal EXCEPT ![0] = @ + 1]
    /\ prod' = [prod EXCEPT ![0].wr = @ + 1]
    /\ UNCHANGED <<tail, head, cached_head, cached_tail, closed, active,
                   producer_count, ch_closed, cons, reg, closer, sent,
                   delivered, batches, obs, quota, handed, streamVars,
                   dropped>>

\* After reservation.commit(): data_notify.notify_one(), then Ok(()) from
\* start_send, Ready(Ok) from poll_ready and poll_flush, and on to
\* producer.close() in poll_close
SinkCommitted ==
    /\ sender.pc = "reserving"
    /\ prod[0].pc = "idle"
    /\ prod[0].res = "Committed"
    /\ data_notify' = [permit |-> TRUE, pulses |-> data_notify.pulses + 1]
    /\ sender' =
         IF sender.kind = "start_send"
         THEN SinkReturns([sender EXCEPT
                            !.accepted = Append(@, sender.item)], "Ok")
         ELSE IF sender.kind = "poll_close"
         THEN [sender EXCEPT !.pc = "closing", !.flushed = @ + 1,
                             !.item = NoItem]
         ELSE SinkReturns([sender EXCEPT
                            !.flushed = @ + 1,
                            !.ready = (sender.kind = "poll_ready") \/ @],
                          "Ok")
    /\ UNCHANGED <<baseVars, receiver, shutdown>>

\* Variant: start_send on a full ring keeps nothing
StorePendingNothing(item) == NoItem

\* *this.pending_item = Some(item)
StorePending(item) == item

\* reserve returned None: the item goes (back) into pending_item;
\* start_send returns Ok(()), the poll methods create the Notified future
\* with backpressure_notify.notified()
SinkRefused ==
    /\ sender.pc = "reserving"
    /\ prod[0].pc = "idle"
    /\ prod[0].res = "None"
    /\ sender' =
         IF sender.kind = "start_send"
         THEN SinkReturns([sender EXCEPT
                            !.pending_item = StorePending(sender.item),
                            !.accepted = Append(@, sender.item)], "Ok")
         ELSE [sender EXCEPT !.pc = "notified", !.item = NoItem,
                             !.pending_item = StorePending(sender.item)]
    /\ UNCHANGED <<baseVars, receiver, data_notify, shutdown>>

\* Variant: the poll methods call the waker whatever the poll of the
\* Notified future gave
WakesAlways(fired) == TRUE

\* The poll methods call cx.waker().wake_by_ref() when the poll of the
\* Notified future is Ready: notify_waiters was called after the future
\* was created
Wakes(fired) == fired

\* notified.poll(cx) in poll_ready, poll_flush and poll_close, and the
\* return of Poll::Pending. The Notified future is a local of the method:
\* it is dropped on return, which takes the task off the list of waiters
\* of the notifier
SinkPolled ==
    /\ sender.pc \in {"notified", "fired"}
    /\ sender' = SinkReturns(
            [sender EXCEPT !.woken = Wakes(sender.pc = "fired")], "Pending")
    /\ UNCHANGED <<baseVars, receiver, data_notify, shutdown>>

\* poll_close after its flush: producer.close() and Ready(Ok)
SinkClose ==
    /\ sender.pc = "closing"
    /\ closed' = [closed EXCEPT ![0] = ClosedStore(@)]
    /\ sender' = SinkReturns(sender, "Ok")
    /\ UNCHANGED <<tail, head, cached_head, cached_tail, buffer, active,
                   producer_count, ch_closed, prod, cons, reg, closer,
                   nextVal, sent, delivered, batches, obs, quota, handed,
                   receiver, data_notify, shutdown, dropped>>

\* ---------------------------------------------------------------------
\* Async adapter: shutdown
\* ---------------------------------------------------------------------

\* send has found the ring full: reserve has returned None and the task
\* has not been resumed since
Blocked(snd) ==
    /\ snd.kind = "send"
    /\ \/ snd.pc = "waiting"
       \/ snd.pc = "reserving" /\ prod[0].pc = "idle" /\ prod[0].res = "None"

\* Variant: initiate_shutdown flips the flag it finds
InitiateShutdownFlipped(flag) == ~flag

\* ShutdownState::initiate_shutdown: the value stored
InitiateShutdown(flag) == TRUE

\* RingReceiver::shutdown (ShutdownHandle::trigger, called by the task that
\* polls the receiver) or ShutdownSignal::shutdown (any task), once the
\* shutdown call before it has returned: ShutdownSignal::shutdown returns
\* at once when is_shutdown_initiated(), every other call goes on with
\* initiate_shutdown()
ShutdownCall ==
    /\ shutdown.pc \in {"idle", "done"}
    /\ shutdown.calls < shutdown.limit
    /\ \E kind \in {"handle", "signal"} :
            /\ (kind = "handle") => (receiver.pc = "idle")
            /\ shutdown' =
                 IF kind = "signal" /\ shutdown.shutdown_initiated
                 THEN [shutdown EXCEPT !.kind = kind, !.calls = @ + 1]
                 ELSE [shutdown EXCEPT
                        !.pc = "close", !.kind = kind, !.calls = @ + 1,
                        !.first = IF shutdown.calls = 0 THEN kind ELSE @,
                        !.shutdown_initiated = InitiateShutdown(@),
                        !.while_blocked = IF shutdown.calls = 0
                                          THEN Blocked(sender) ELSE @]
    /\ UNCHANGED <<baseVars, sender, receiver, data_notify>>

\* ShutdownState::close
ShutdownClose ==
    /\ shutdown.pc = "close"
    /\ shutdown' = [shutdown EXCEPT
            !.closed = TRUE,
            !.pc = IF shutdown.kind = "handle" THEN "send" ELSE "notify"]
    /\ UNCHANGED <<baseVars, sender, receiver, data_notify>>

\* ShutdownHandle::trigger: shutdown_tx.take() and tx.send(()); a later
\* trigger finds shutdown_tx empty and sends nothing
ShutdownSend ==
    /\ shutdown.pc = "send"
    /\ shutdown' = [shutdown EXCEPT !.tx_sent = TRUE, !.pc = "notify"]
    /\ UNCHANGED <<baseVars, sender, receiver, data_notify>>

\* backpressure_notify.notify_waiters() at the end of both shutdown calls
ShutdownNotify ==
    /\ shutdown.pc = "notify"
    /\ shutdown' = [shutdown EXCEPT !.pc = "done"]
    /\ sender' = NotifyWaiters(sender)
    /\ UNCHANGED <<baseVars, receiver, data_notify>>

\* ---------------------------------------------------------------------
\* Async adapter: RingReceiver::poll_next
\* ---------------------------------------------------------------------

recvFrame == <<ringVars, active, producer_count, ch_closed, prod, reg,
               closer, nextVal, sent, delivered, batches, obs, quota, handed,
               dropped>>

\* RingReceiver::buffer: the handler of every drain pushes at the back,
\* the stream pops at the front; what is in it is what the drains took and
\* the stream has not yielded yet
Buffer ==
    SubSeq(delivered[0], Len(receiver.out) + 1, Len(delivered[0]))

\* Variant: the stream yields the newest buffered item
PopBack(buf) == buf[Len(buf)]

\* buffer.pop_front()
PopFront(buf) == Head(buf)

\* poll_next returns Poll::Ready(Some(item))
Yields(rcv) ==
    [rcv EXCEPT !.pc = "idle", !.out = Append(@, PopFront(Buffer))]

\* poll_next returns Poll::Ready(None)
Ends(rcv) == [rcv EXCEPT !.pc = "idle", !.ended = TRUE]

\* Variant: the operands of the subtraction are exchanged, and the
\* receiver never has room for a drain
BatchLimitNone == SaturatingSub(Len(Buffer), receiver.batch_hint)

\* batch_hint.saturating_sub(buffer.len())
BatchLimit == SaturatingSub(receiver.batch_hint, Len(Buffer))

\* The receiver calls backpressure_notify.notify_waiters()
Signals(rcv) == [rcv EXCEPT !.signaled = TRUE]

\* poll_next, from its entry to its first drain or to the data notifier
RecvPoll ==
    /\ receiver.pc = "idle"
    /\ ~receiver.ended
    /\ cons.pc = "idle"
    /\ (shutdown.kind = "handle") => (shutdown.pc \in {"idle", "done"})
    /\ LET rcv == [receiver EXCEPT !.signaled = FALSE]
       IN IF Buffer # <<>>
          THEN receiver' = Yields(rcv) /\ cons' = cons
          ELSE IF receiver.drain_complete
          THEN receiver' = Ends(rcv) /\ cons' = cons
          ELSE IF receiver.shutdown_rx /\ shutdown.tx_sent
          THEN /\ receiver' = [rcv EXCEPT !.shutdown_rx = FALSE,
                                          !.pc = "final_drain"]
               /\ cons' = ChanDrainCall("batch", TRUE, 0)
          ELSE IF receiver.data_pending /\ BatchLimit > 0
          THEN /\ receiver' = [rcv EXCEPT !.data_pending = FALSE,
                                          !.pc = "data_drain"]
               /\ cons' = ChanDrainCall("upto", TRUE, BatchLimit)
          ELSE /\ receiver' = [rcv EXCEPT !.data_pending = FALSE,
                                          !.pc = "data_poll"]
               /\ cons' = cons
    /\ UNCHANGED <<recvFrame, sender, data_notify, shutdown>>

\* After the drain of the shutdown signal: notify_waiters, drain_complete,
\* then an item or the end of the stream
RecvFinalDrained ==
    /\ receiver.pc = "final_drain"
    /\ cons.pc = "idle"
    /\ sender' = NotifyWaiters(sender)
    /\ receiver' =
            IF Buffer # <<>>
            THEN Yields(Signals([receiver EXCEPT !.drain_complete = TRUE]))
            ELSE Ends(Signals([receiver EXCEPT !.drain_complete = TRUE]))
    /\ UNCHANGED <<recvFrame, cons, data_notify, shutdown>>

\* After the drain of the data_pending path: notify_waiters if the buffer
\* is not empty, then an item or on to the data notifier
RecvDataDrained ==
    /\ receiver.pc = "data_drain"
    /\ cons.pc = "idle"
    /\ IF Buffer # <<>>
       THEN /\ sender' = NotifyWaiters(sender)
            /\ receiver' = Yields(Signals(receiver))
       ELSE /\ sender' = sender
            /\ receiver' = [receiver EXCEPT !.pc = "data_poll"]
    /\ UNCHANGED <<recvFrame, cons, data_notify, shutdown>>

\* data_notify.notified() polled once: a stored permit is consumed and the
\* task re-polls with data_pending set; the Notified future is dropped on
\* return, so the receiver never stays registered
RecvDataPoll ==
    /\ receiver.pc = "data_poll"
    /\ IF data_notify.permit
       THEN /\ data_notify' = [data_notify EXCEPT !.permit = FALSE]
            /\ receiver' = [receiver EXCEPT !.data_pending = TRUE,
                                            !.pc = "idle"]
       ELSE /\ data_notify' = data_notify
            /\ receiver' = [receiver EXCEPT !.pc = "timer"]
    /\ UNCHANGED <<recvFrame, cons, sender, shutdown>>

\* poll_timer.poll_tick is Ready: drain without a notification
RecvTimerFires ==
    /\ receiver.pc = "timer"
    /\ IF BatchLimit > 0
       THEN /\ receiver' = [receiver EXCEPT !.pc = "timer_drain"]
            /\ cons' = ChanDrainCall("upto", TRUE, BatchLimit)
       ELSE /\ receiver' = [receiver EXCEPT !.pc = "closed_check"]
            /\ cons' = cons
    /\ UNCHANGED <<recvFrame, sender, data_notify, shutdown>>

\* poll_timer.poll_tick is Pending
RecvTimerPending ==
    /\ receiver.pc = "timer"
    /\ receiver' = [receiver EXCEPT !.pc = "closed_check"]
    /\ UNCHANGED <<recvFrame, cons, sender, data_notify, shutdown>>

\* Variant: the timer path needs two drained items to signal
TimerDrainedMany(count) == count > 1

\* The test of the timer path after its drain: count > 0
TimerDrained(count) == count > 0

\* After the drain of the timer path: with count > 0, notify_waiters and
\* an item
RecvTimerDrained ==
    /\ receiver.pc = "timer_drain"
    /\ cons.pc = "idle"
    /\ IF TimerDrained(cons.ret)
       THEN /\ sender' = NotifyWaiters(sender)
            /\ receiver' = Yields(Signals(receiver))
       ELSE /\ sender' = sender
            /\ receiver' = [receiver EXCEPT !.pc = "closed_check"]
    /\ UNCHANGED <<recvFrame, cons, data_notify, shutdown>>

\* shutdown_state.is_closed() at the end of poll_next: one more drain, or
\* Poll::Pending
RecvClosedCheck ==
    /\ receiver.pc = "closed_check"
    /\ IF shutdown.closed
       THEN /\ receiver' = [receiver EXCEPT !.pc = "last_drain"]
            /\ cons' = ChanDrainCall("batch", TRUE, 0)
       ELSE /\ receiver' = [receiver EXCEPT !.pc = "idle"]
            /\ cons' = cons
    /\ UNCHANGED <<recvFrame, sender, data_notify, shutdown>>

\* Variant: the drain of the closed path never reports an item
FoundAnyNever(count) == FALSE

\* found_any after the drain of the closed path: the handler ran
FoundAny(count) == count > 0

\* After the drain of the closed path: with found_any, notify_waiters and
\* an item, otherwise the end of the stream
RecvLastDrained ==
    /\ receiver.pc = "last_drain"
    /\ cons.pc = "idle"
    /\ IF FoundAny(cons.ret)
       THEN /\ sender' = NotifyWaiters(sender)
            /\ receiver' = Yields(Signals(receiver))
       ELSE /\ sender' = sender
            /\ receiver' = Ends(receiver)
    /\ UNCHANGED <<recvFrame, cons, data_notify, shutdown>>

\* ---------------------------------------------------------------------
\* Specification of the async adapter: one sender, the receiver, shutdown
\* ---------------------------------------------------------------------

\* channel_with_stream_config and one SenderFactory::register
InitStream ==
    /\ InitRings
    /\ producer_count = 1
    /\ active = [r \in Rings |-> r = 0]
    /\ prod = [r \in Rings |-> IF r = 0 THEN IdleProducer ELSE NoProducer]
    /\ reg = [t \in RegThreads |-> IdleRegister]
    /\ quota = MaxStreamVal
    /\ handed = <<0>>
    /\ sender = IdleSender
    /\ \E b \in BatchHints : receiver = [NewReceiver EXCEPT !.batch_hint = b]
    /\ data_notify = NewNotify
    /\ shutdown = NewShutdown

\* Steps of the sender task once a call is in progress
SenderStep ==
    \/ SendCheck
    \/ SendReserve
    \/ ReserveSlow(0)
    \/ WriteSlot(0)
    \/ CommitFilled(0)
    \/ SendCommitted
    \/ SendRefused
    \/ SendWoken

\* Steps of the task that polls the receiver
ReceiverStep ==
    \/ RecvPoll
    \/ RecvFinalDrained
    \/ RecvDataDrained
    \/ RecvDataPoll
    \/ RecvTimerFires
    \/ RecvTimerPending
    \/ RecvTimerDrained
    \/ RecvClosedCheck
    \/ RecvLastDrained
    \/ DrainBegin
    \/ DrainRead
    \/ DrainStore

\* Steps of a shutdown call in progress
ShutdownStep ==
    \/ ShutdownClose
    \/ ShutdownSend
    \/ ShutdownNotify

NextStream ==
    \/ SendCall
    \/ SenderStep
    \/ ReceiverStep
    \/ ShutdownCall
    \/ ShutdownStep

SpecStream == InitStream /\ [][NextStream]_vars

\* Every task that can take a step eventually takes one, and the poll
\* timer of the receiver fires again and again
FairStream ==
    /\ WF_vars(SenderStep)
    /\ WF_vars(ReceiverStep)
    /\ SF_vars(RecvTimerFires)
    /\ WF_vars(ShutdownStep)

FairSpecStream == SpecStream /\ FairStream

\* ---------------------------------------------------------------------
\* Async adapter: SenderFactory
\* ---------------------------------------------------------------------

\* A SenderFactory::close has set the flag of the shutdown state and no
\* close is in progress: the first close has returned
FactoryClosed == shutdown.closed /\ closer.pc = "idle"

\* SenderFactory::close: shutdown_state.close()
FactoryCloseStart ==
    /\ closer.pc = "idle"
    /\ shutdown' = [shutdown EXCEPT !.closed = TRUE]
    /\ closer' = [IdleCloser EXCEPT !.pc = "channel"]
    /\ UNCHANGED <<ringVars, active, producer_count, ch_closed, prod, cons,
                   reg, nextVal, sent, delivered, batches, obs, quota,
                   handed, sender, receiver, data_notify, dropped>>

\* SenderFactory::close: channel.close(), store of the channel-level
\* closed flag
FactoryCloseChannel ==
    /\ closer.pc = "channel"
    /\ ch_closed' = TRUE
    /\ closer' = [closer EXCEPT !.pc = "load"]
    /\ UNCHANGED <<ringVars, active, producer_count, prod, cons, reg,
                   nextVal, sent, delivered, batches, obs, quota, handed,
                   streamVars, dropped>>

\* SenderFactory::register: shutdown_state.is_closed()
FactoryRegister(t) ==
    /\ reg[t].pc = "idle"
    /\ reg' = [reg EXCEPT ![t] =
            IF shutdown.closed
            THEN [IdleRegister EXCEPT !.pc = "done", !.result = "Closed",
                                      !.late = FactoryClosed]
            ELSE [IdleRegister EXCEPT !.pc = "channel",
                                      !.late = FactoryClosed]]
    /\ UNCHANGED <<ringVars, active, producer_count, ch_closed, prod, cons,
                   closer, nextVal, sent, delivered, batches, obs, quota,
                   handed, streamVars, dropped>>

\* SenderFactory::register: channel.register(), load of the channel-level
\* closed flag
FactoryRegisterChannel(t) ==
    /\ reg[t].pc = "channel"
    /\ reg' = [reg EXCEPT ![t] =
            IF ch_closed
            THEN [reg[t] EXCEPT !.pc = "done", !.result = "Closed"]
            ELSE [reg[t] EXCEPT !.pc = "add"]]
    /\ UNCHANGED <<ringVars, active, producer_count, ch_closed, prod, cons,
                   closer, nextVal, sent, delivered, batches, obs, quota,
                   handed, streamVars, dropped>>

\* The task calls RingSender::send(item) or RingSender::try_send(item) on
\* the sender it registered before any close
FactorySendCall ==
    /\ sender.pc = "idle"
    /\ Written + 1 <= quota
    /\ \E kind \in {"send", "try_send"} :
            sender' = [IdleSender EXCEPT
                            !.pc = "check", !.kind = kind,
                            !.item = <<0, nextVal[0]>>,
                            !.t0 = tail[0], !.p0 = data_notify.pulses,
                            !.b0 = buffer[0], !.late = FactoryClosed]
    /\ UNCHANGED <<baseVars, receiver, data_notify, shutdown>>

\* ---------------------------------------------------------------------
\* Specification of the sender factory: one sender registered, later
\* registrations, SenderFactory::close; nothing drains the ring
\* ---------------------------------------------------------------------

InitFactory ==
    /\ InitRings
    /\ producer_count = 1
    /\ active = [r \in Rings |-> r = 0]
    /\ prod = [r \in Rings |-> IF r = 0 THEN IdleProducer ELSE NoProducer]
    /\ reg = [t \in RegThreads |-> IdleRegister]
    /\ quota = MaxFactoryVal
    /\ handed = <<0>>
    /\ sender = IdleSender
    /\ receiver = NewReceiver
    /\ data_notify = NewNotify
    /\ shutdown = NewShutdown

NextFactory ==
    \/ FactorySendCall
    \/ SendCheck
    \/ SendReserve
    \/ WriteSlot(0)
    \/ CommitFilled(0)
    \/ SendCommitted
    \/ FactoryCloseStart
    \/ FactoryCloseChannel
    \/ CloseLoad
    \/ CloseNextRing
    \/ \E t \in FactoryThreads : FactoryRegister(t)
    \/ \E t \in FactoryThreads : FactoryRegisterChannel(t)
    \/ \E t \in FactoryThreads : RegFetchAdd(t)
    \/ \E t \in FactoryThreads : RegRollback(t)
    \/ \E t \in FactoryThreads : RegActivate(t)

SpecFactory == InitFactory /\ [][NextFactory]_vars

\* ---------------------------------------------------------------------
\* Specification of the Sink implementation: one task that keeps to the
\* Sink contract, a consumer that drains the ring, one shutdown call
\* ---------------------------------------------------------------------

InitSink ==
    /\ InitRings
    /\ producer_count = 1
    /\ active = [r \in Rings |-> r = 0]
    /\ prod = [r \in Rings |-> IF r = 0 THEN IdleProducer ELSE NoProducer]
    /\ reg = [t \in RegThreads |-> IdleRegister]
    /\ quota = MaxSinkVal
    /\ handed = <<0>>
    /\ sender = IdleSender
    /\ receiver = NewReceiver
    /\ data_notify = NewNotify
    /\ shutdown = NewShutdown

\* Steps of a Sink method in progress
SinkStep ==
    \/ SendReserve
    \/ ReserveSlow(0)
    \/ SinkWrite
    \/ CommitFilled(0)
    \/ SinkCommitted
    \/ SinkRefused
    \/ SinkPolled
    \/ SinkClose

NextSink ==
    \/ SinkCall
    \/ SinkStep
    \/ RingDrain(0)
    \/ DrainRead
    \/ DrainStore
    \/ ShutdownCall
    \/ ShutdownStep

SpecSink == InitSink /\ [][NextSink]_vars

\* ---------------------------------------------------------------------
\* Specification of a task that sends through the Sink with
\* SinkExt::send, next to the receiver and a shutdown
\* ---------------------------------------------------------------------

\* The Sink method the future of SinkExt::send calls when it is polled:
\* poll_ready until it is Ready, start_send, poll_flush until it is Ready;
\* then the task goes on to its next send
SinkSendNext ==
    IF sender.kind = "poll_ready" /\ sender.result = "Ok" THEN "start_send"
    ELSE IF sender.kind = "start_send" /\ sender.result = "Ok"
    THEN "poll_flush"
    ELSE IF sender.kind = "poll_flush" /\ sender.result = "Pending"
    THEN "poll_flush"
    ELSE "poll_ready"

\* The executor polls the task: at first, after a method that was Ready,
\* and after Poll::Pending only once the task's waker has been called.
\* The task stops at the first error
SinkSendPoll ==
    /\ sender.pc = "idle"
    /\ sender.result # "Closed"
    /\ (sender.result = "Pending") => sender.woken
    /\ (SinkSendNext = "poll_ready" /\ sender.result # "Pending") =>
            (Len(sender.accepted) < quota)
    /\ sender' = SinkEnter(SinkSendNext)
    /\ UNCHANGED <<baseVars, receiver, data_notify, shutdown>>

\* Steps of the Sink method in progress
SinkSendStep ==
    \/ SendReserve
    \/ ReserveSlow(0)
    \/ SinkWrite
    \/ CommitFilled(0)
    \/ SinkCommitted
    \/ SinkRefused
    \/ SinkPolled

InitSinkSend ==
    /\ InitRings
    /\ producer_count = 1
    /\ active = [r \in Rings |-> r = 0]
    /\ prod = [r \in Rings |-> IF r = 0 THEN IdleProducer ELSE NoProducer]
    /\ reg = [t \in RegThreads |-> IdleRegister]
    /\ quota = MaxSinkSendVal
    /\ handed = <<0>>
    /\ sender = IdleSender
    /\ \E b \in BatchHints : receiver = [NewReceiver EXCEPT !.batch_hint = b]
    /\ data_notify = NewNotify
    /\ shutdown = NewShutdown

NextSinkSend ==
    \/ SinkSendPoll
    \/ SinkSendStep
    \/ ReceiverStep
    \/ ShutdownCall
    \/ ShutdownStep

SpecSinkSend == InitSinkSend /\ [][NextSinkSend]_vars

\* The task runs whenever it can, the receiver is polled again and again,
\* its poll timer fires again and again, a shutdown call runs to its end
FairSpecSinkSend ==
    /\ SpecSinkSend
    /\ WF_vars(SinkSendPoll \/ SinkSendStep)
    /\ WF_vars(ReceiverStep)
    /\ SF_vars(RecvTimerFires)
    /\ WF_vars(ShutdownStep)

\* ---------------------------------------------------------------------
\* Specification of repeated shutdown: the async adapter with several
\* shutdown calls, one after the other
\* ---------------------------------------------------------------------

\* The adapter after its sender has sent Loaded items and before the
\* first poll of the receiver
InitShutdown ==
    /\ tail = [r \in Rings |-> IF r = 0 THEN Loaded ELSE 0]
    /\ head = [r \in Rings |-> 0]
    /\ cached_head = [r \in Rings |-> 0]
    /\ cached_tail = [r \in Rings |-> 0]
    /\ closed = [r \in Rings |-> FALSE]
    /\ buffer = [r \in Rings |-> [i \in Slots |->
                    IF r = 0 /\ i < Loaded THEN <<0, i + 1>> ELSE NoItem]]
    /\ ch_closed = FALSE
    /\ cons = IdleConsumer
    /\ closer = IdleCloser
    /\ nextVal = [r \in Rings |-> IF r = 0 THEN Loaded + 1 ELSE 1]
    /\ sent = [r \in Rings |-> IF r = 0 THEN LoadedItems(0) ELSE <<>>]
    /\ delivered = [r \in Rings \cup {-1} |-> <<>>]
    /\ batches = [r \in Rings |-> IF r = 0 THEN {0, Loaded} ELSE {0}]
    /\ obs = NoObs
    /\ dropped = [r \in Rings |-> NotDropped]
    /\ producer_count = 1
    /\ active = [r \in Rings |-> r = 0]
    /\ prod = [r \in Rings |-> IF r = 0 THEN IdleProducer ELSE NoProducer]
    /\ reg = [t \in RegThreads |-> IdleRegister]
    /\ quota = Loaded + MaxShutdownVal
    /\ handed = <<0>>
    /\ sender = IdleSender
    /\ \E b \in BatchHints : receiver = [NewReceiver EXCEPT !.batch_hint = b]
    /\ data_notify = NewNotify
    /\ shutdown = [NewShutdown EXCEPT !.limit = MaxShutdownCalls]

SpecShutdown == InitShutdown /\ [][NextStream]_vars

FairSpecShutdown == SpecShutdown /\ FairStream

\* ---------------------------------------------------------------------
\* Properties of one ring
\* ---------------------------------------------------------------------

\* s is an initial segment of t
IsPrefix(s, t) == Len(s) <= Len(t) /\ s = SubSeq(t, 1, Len(s))

\* The values of s carry the tag of producer r and strictly increase
InWriteOrder(r, s) ==
    /\ \A j \in 1 .. Len(s) : s[j][1] = r
    /\ \A j \in 1 .. (Len(s) - 1) : s[j][2] < s[j + 1][2]

\* C1: in every reachable state of a ring driven by one producer
\* (reserve+commit, push, send) and one consumer (all four drains), in any
\* interleaving, 0 <= tail - head <= capacity.
C1_BoundedCount ==
    \A r \in Rings :
        /\ head[r] <= tail[r]
        /\ WrappingSub(tail[r], head[r]) <= Capacity

\* C1 witness: the ring is full after its sequences have wrapped, while the
\* producer is refused and a drain is in progress
C1_Witness ==
    /\ tail[0] - head[0] = Capacity
    /\ head[0] > 0
    /\ prod[0].res = "None"
    /\ cons.pc = "loop"

\* C3: the values handed to the drain handler are, in order, the values the
\* producer committed: at every moment a prefix of them (none duplicated,
\* reordered or stale), and all of them once the consumer has drained the
\* ring empty; the committed values are the written ones in write order.
C3_RoundTrip ==
    /\ delivered[-1] = <<>>
    /\ \A r \in Rings :
        /\ InWriteOrder(r, sent[r])
        /\ Len(sent[r]) = tail[r]
        /\ IsPrefix(delivered[r], sent[r])
        /\ (cons.pc = "idle") => (Len(delivered[r]) = head[r])
        /\ (cons.pc = "idle" /\ head[r] = tail[r]) =>
                (delivered[r] = sent[r])

\* C3 witness: more values than the ring has slots went through the ring
\* and all of them were delivered
C3_Witness ==
    /\ cons.pc = "idle"
    /\ head[0] = tail[0]
    /\ Len(sent[0]) > Capacity
    /\ delivered[0] = sent[0]

\* C4 as stated: every drain, of any variant, delivers whole batches only,
\* so the range [head, head + count) it is about to release starts and ends
\* at commit boundaries.
C4_DrainDeliversWholeBatches ==
    (cons.pc = "store") =>
        /\ cons.head \in batches[cons.i]
        /\ (cons.head + cons.n) \in batches[cons.i]

\* C4 amended: the tail a drain observes is always a commit boundary (a
\* batch is visible entirely or not at all), and a drain ends at a commit
\* boundary unless it is a bounded drain stopped by its max_items limit.
C4_BatchVisibleAtomically ==
    (cons.pc \in {"loop", "store"}) =>
        /\ cons.tail \in batches[cons.i]
        /\ (cons.pc = "store") =>
                \/ (cons.head + cons.n) \in batches[cons.i]
                \/ /\ cons.op = "upto"
                   /\ cons.n = cons.to_consume
                   /\ cons.to_consume < cons.tail - cons.head

\* C4 witness: an unbounded drain delivered a batch of several items as a
\* whole while the producer was writing the next batch
C4_Witness ==
    /\ cons.pc = "store"
    /\ cons.op = "batch"
    /\ cons.n >= 2
    /\ batches[cons.i] \cap (cons.head .. cons.tail) = {cons.tail}
    /\ prod[cons.i].pc = "writing"
    /\ prod[cons.i].wr >= 1

\* A step in which Ring::reserve on ring r decides to grant
DecidesSome(r) ==
    /\ prod[r].pc \in {"idle", "slow"}
    /\ prod'[r].pc \in {"writing", "holding"}

\* A step in which Ring::reserve on ring r decides to refuse
DecidesNone(r) ==
    /\ prod[r].pc \in {"idle", "slow"}
    /\ prod'[r] # prod[r]
    /\ prod'[r].pc = "idle"
    /\ prod'[r].res = "None"

\* C7: on an open ring reserve(n) is refused exactly when n = 0, n >
\* capacity or the real free space capacity - (tail - head), at the moment
\* reserve decides, is less than n; a stale cached_head changes neither.
C7_ReserveFailsExactlyWhenNoSpace ==
    [][\A r \in Rings :
         ~closed[r] =>
            /\ DecidesNone(r) =>
                    \/ prod'[r].n = 0
                    \/ prod'[r].n > Capacity
                    \/ Capacity - (tail[r] - head[r]) < prod'[r].n
            /\ DecidesSome(r) =>
                    /\ prod'[r].n >= 1
                    /\ prod'[r].n <= Capacity
                    /\ Capacity - (tail[r] - head[r]) >= prod'[r].n]_vars

\* C7 witness: a request that fits the capacity was refused while some,
\* but fewer than requested, slots were free (no partial grant), after the
\* slow path had refreshed a stale cached_head
C7_Witness ==
    /\ prod[0].pc = "idle"
    /\ prod[0].res = "None"
    /\ prod[0].n <= Capacity
    /\ Capacity - (tail[0] - head[0]) >= 1
    /\ Capacity - (tail[0] - head[0]) < prod[0].n
    /\ cached_head[0] > 0
    /\ ~closed[0]

\* C8: a reservation granted for reserve(n) at tail t has length
\* L = min(n, capacity - (t mod capacity)), 1 <= L <= n, covers the
\* sequences [t, t + L) with t the current tail, stays inside one lap of the
\* slot array and within the free space.
C8_ReservationContiguous ==
    \A r \in Rings :
        (prod[r].pc \in {"writing", "holding"}) =>
            LET t == prod[r].t
                L == prod[r].len
            IN /\ t = tail[r]
               /\ L = Min(prod[r].n, Capacity - (t % Capacity))
               /\ 1 <= L
               /\ L <= prod[r].n
               /\ (t % Capacity) + L <= Capacity
               /\ t \div Capacity = (t + L - 1) \div Capacity
               /\ L <= Capacity - (tail[r] - head[r])

\* C8 witness: reserve(3) at tail 3 of a ring of capacity 4 was granted the
\* single slot before the wrap
C8_Witness ==
    /\ prod[0].pc = "holding"
    /\ prod[0].n = 3
    /\ prod[0].t = Capacity - 1
    /\ prod[0].len = 1

\* ---------------------------------------------------------------------
\* Properties of a channel
\* ---------------------------------------------------------------------

\* C2: for every producer, the items the handler received from it are, in
\* order, the first items that producer committed: if x was sent before y
\* on the same producer, y is never delivered unless x was delivered
\* before it, whatever the other producers do and however many channel
\* drains it takes.
C2_PerProducerFifo ==
    \A r \in Rings :
        /\ \A j \in 1 .. Len(delivered[r]) : delivered[r][j] = <<r, j>>
        /\ \A j \in 1 .. Len(sent[r]) : sent[r][j] = <<r, j>>
        /\ Len(delivered[r]) <= Len(sent[r])

\* C2 witness: a channel drain is on its second ring after the handler
\* received two more items of producer 0, in a ring that has wrapped, while
\* producer 1 has committed an item
C2_Witness ==
    /\ Len(delivered[0]) >= Warmup + 2
    /\ Len(sent[1]) >= 1
    /\ cons.chan
    /\ cons.pc \in {"loop", "store"}
    /\ cons.i = 1

\* C5: a producer call (reserve, push, send) that starts on a closed ring
\* never obtains a reservation.
C5_ClosedRingRefuses ==
    \A r \in Rings :
        prod[r].late => prod[r].pc \notin {"writing", "holding"}

\* C6: once Channel::close has returned with T items in flight and no
\* producer call in progress, the handler receives those T items and no
\* others: never more than T, and exactly T when the consumer is idle on
\* empty rings.
C6_CloseThenExactlyInFlight ==
    (obs >= 0) =>
        /\ Handled <= obs
        /\ (cons.pc = "idle" /\ InFlight = 0) => (Handled = obs)

\* C9: the successful registrations claimed the ring indices 0, 1, 2, ...
\* in the order they took effect, at most max_producers of them; every
\* handle handed out belongs to the call that claimed its index, and the
\* index of a dropped handle is never claimed again.
C9_RegisterIndicesUnique ==
    /\ Len(handed) <= MaxProducers
    /\ \A j \in 1 .. Len(handed) : handed[j] = j - 1
    /\ \A t \in RegThreads :
            (reg[t].pc = "activate" \/ reg[t].result = "Ok") =>
                /\ reg[t].id \in Rings
                /\ reg[t].id < Len(handed)
                /\ \A u \in RegThreads \ {t} :
                        (reg[u].pc = "activate" \/ reg[u].result = "Ok") =>
                            (reg[u].id # reg[t].id)
    /\ \A r \in Rings :
            (prod[r].pc # "none") =>
                (\E t \in RegThreads :
                    reg[t].result = "Ok" /\ reg[t].id = r)

\* C9 witness: every index is claimed, the handle of ring 0 was dropped,
\* and one more register call is about to claim an index
C9_Witness ==
    /\ handed = [j \in 1 .. MaxProducers |-> j - 1]
    /\ prod[0].pc = "dropped"
    /\ \E t \in RegThreads : reg[t].pc = "add"

\* Register calls that have incremented producer_count and not yet rolled
\* the increment back
MidRollback == {t \in RegThreads : reg[t].pc = "rollback"}

\* C10, in every state: a call fails with TooManyProducers exactly when
\* max_producers indices were claimed before it, carries max =
\* max_producers and hands out no handle; its own increment is rolled back
\* when it returns, so producer_count is max_producers plus the increments
\* of the other failing calls still in progress.
C10_FailedRegisterState ==
    /\ producer_count = Len(handed) + Cardinality(MidRollback)
    /\ \A t \in RegThreads :
        /\ (reg[t].pc = "rollback" \/ reg[t].result = "TooManyProducers")
                => /\ Len(handed) = MaxProducers
                   /\ reg[t].id >= MaxProducers
        /\ (reg[t].result = "TooManyProducers")
                => /\ reg[t].max = MaxProducers
                   /\ producer_count =
                        MaxProducers + Cardinality(MidRollback)
        /\ (reg[t].result = "Closed") => (ch_closed /\ reg[t].id = -1)

\* C10, in every step: a call that finds max_producers indices claimed
\* fails; a call on a closed channel returns Closed and leaves
\* producer_count unchanged; a failing call changes neither the handles nor
\* the claimed indices.
C10_FailedRegisterStep ==
    \A t \in RegThreads :
        /\ (reg[t].pc = "add" /\ reg'[t].pc # "add"
                /\ Len(handed) = MaxProducers)
                => (reg'[t].pc = "rollback" /\ handed' = handed)
        /\ (reg[t].pc = "idle" /\ reg'[t].pc # "idle" /\ ch_closed)
                => /\ reg'[t].result = "Closed"
                   /\ producer_count' = producer_count
                   /\ prod' = prod
        /\ (reg[t].pc = "rollback" /\ reg'[t].pc # "rollback")
                => /\ reg'[t].result = "TooManyProducers"
                   /\ prod' = prod
                   /\ handed' = handed

C16_CommitStep ==
    \A r \in Rings :
        (prod[r].pc = "holding" /\ prod'[r].pc = "idle"
            /\ prod'[r].res # "Dropped") =>
        LET L == prod[r].len
            q == prod'[r]
        IN /\ q.op \in {"commit", "try_commit_n", "commit_up_to"}
           /\ (q.op = "commit") =>
                (q.res = "Committed" /\ tail'[r] = tail[r] + L)
           /\ (q.op = "try_commit_n" /\ q.n <= L) =>
                (q.res = "Committed" /\ tail'[r] = tail[r] + q.n)
           /\ (q.op = "try_commit_n" /\ q.n > L) =>
                /\ q.res = "CommitError"
                /\ q.ret = q.n
                /\ q.len = L
                /\ tail' = tail
                /\ sent' = sent
           /\ (q.op = "commit_up_to") =>
                /\ q.res = "Committed"
                /\ q.ret = (IF q.n <= L THEN q.n ELSE L)
                /\ tail'[r] = tail[r] + q.ret
           /\ Len(sent'[r]) = tail'[r]

C16_CommitVariants == [][C16_CommitStep]_vars

\* C16 witness: try_commit_n(L + 1) was refused on a ring that already
\* holds committed items
C16_Witness ==
    /\ prod[0].res = "CommitError"
    /\ prod[0].op = "try_commit_n"
    /\ prod[0].n = prod[0].len + 1
    /\ tail[0] > head[0]

\* The values written into the region of the reservation dropped last
DroppedValues(r) ==
    {buffer[r][SlotOf(tail[r] + j - 1)] : j \in 1 .. prod[r].wr}

\* C17, in every state: nothing written into a dropped region has been
\* published or delivered.
C17_DroppedRegionUnseen ==
    \A r \in Rings :
        (prod[r].pc = "idle" /\ prod[r].res = "Dropped") =>
            \A v \in DroppedValues(r) :
                /\ \A j \in 1 .. Len(sent[r]) : sent[r][j] # v
                /\ \A j \in 1 .. Len(delivered[r]) : delivered[r][j] # v

\* C17, in every step: the drop changes neither tail, head nor what is
\* published, and the reserve that follows starts at the same tail.
C17_DropStep ==
    \A r \in Rings :
        /\ (prod[r].pc = "holding" /\ prod'[r].res = "Dropped") =>
                /\ tail' = tail
                /\ head' = head
                /\ sent' = sent
                /\ delivered' = delivered
        /\ (prod[r].pc = "idle" /\ prod[r].res = "Dropped"
                /\ prod'[r].pc \in {"holding", "writing", "slow"}) =>
                (prod'[r].t = tail[r] /\ tail'[r] = tail[r])

\* C17: dropping a reservation without committing leaves tail, head and
\* occupancy unchanged and publishes nothing; no drain delivers what was
\* written into the dropped region and the next reserve starts at the same
\* tail.
C17_DropLeavesRingUnchanged ==
    []C17_DroppedRegionUnseen /\ [][C17_DropStep]_vars

\* C17 witness: a reservation with written slots was dropped and a drain
\* is delivering the committed items in front of the dropped region
C17_Witness ==
    /\ prod[0].pc = "idle"
    /\ prod[0].res = "Dropped"
    /\ prod[0].wr >= 1
    /\ cons.pc = "loop"
    /\ cons.tail = tail[0]

\* ---------------------------------------------------------------------
\* Properties of drains
\* ---------------------------------------------------------------------

\* The ring drain in progress returns count to its caller in this step
DrainReturns(count) ==
    IF cons'.pc = "idle" THEN cons'.ret = cons.total + count
    ELSE /\ cons'.pc = "begin"
         /\ cons'.total = cons.total + count

\* C18, step by step. Entry of a ring drain on a ring with a = tail - head
\* items and limit lim: with min(lim, a) = 0 it returns 0, invokes no
\* handler and leaves head alone, otherwise it sets out to take min(lim, a)
\* items. Each iteration invokes the handler once and stores nothing. The
\* loop ends after exactly min(lim, a) iterations, and the one store that
\* follows advances head by that number, which is the number returned.
C18_DrainStep ==
    LET i == cons.i
        a == tail[i] - head[i]
        lim == IF cons.op = "upto" THEN cons.max ELSE a
        k == IF lim <= a THEN lim ELSE a
    IN (cons' # cons) =>
        /\ (cons.pc = "begin") =>
                /\ head' = head
                /\ delivered' = delivered
                /\ IF k = 0 THEN DrainReturns(0)
                   ELSE /\ cons'.pc = "loop"
                        /\ cons'.to_consume = k
                        /\ cons'.n = 0
                        /\ cons'.head = head[i]
        /\ (cons.pc = "loop") =>
                /\ head' = head
                /\ Handled' = Handled + 1
                /\ cons'.n = cons.n + 1
                /\ cons'.to_consume = cons.to_consume
                /\ (cons'.pc = "store") = (cons'.n = cons.to_consume)
                /\ cons'.pc \in {"loop", "store"}
        /\ (cons.pc = "store") =>
                /\ cons.n = cons.to_consume
                /\ head[i] = cons.head
                /\ head' = [head EXCEPT ![i] = cons.head + cons.to_consume]
                /\ delivered' = delivered
                /\ DrainReturns(cons.to_consume)

\* C18: every drain variant, started on a ring with a available items,
\* invokes the handler exactly min(limit, a) times, returns that number and
\* advances head by it with a single store after the last handler call;
\* with a = 0 or limit = 0 it returns 0 and touches nothing.
C18_DrainCounts == [][C18_DrainStep]_vars

\* C18 witness: a bounded drain has stopped at its limit, two items taken
\* and at least one left behind, and is about to store head
C18_Witness ==
    /\ cons.pc = "store"
    /\ cons.op = "upto"
    /\ cons.n >= 2
    /\ cons.n < tail[cons.i] - head[cons.i]

\* The handler calls of the channel drain in progress are in ring order
LogInRingOrder ==
    \A j \in 1 .. Len(cons.log) : \A k \in j .. Len(cons.log) :
        cons.log[j] <= cons.log[k]

\* C19, in every state of a consume_all / consume_all_owned call: the
\* handler calls so far are in ring order, their number is the running
\* total, and what each ring delivered is a prefix of what was published
\* on it.
C19_FanInState ==
    (cons.chan /\ cons.op = "batch" /\ cons.pc # "idle") =>
        /\ LogInRingOrder
        /\ Len(cons.log) = cons.total + cons.n
        /\ \A j \in 1 .. Len(cons.log) : cons.log[j] <= cons.i
        /\ \A r \in Rings :
                /\ Len(delivered[r]) <= Len(sent[r])
                /\ \A j \in 1 .. Len(delivered[r]) :
                        delivered[r][j] = sent[r][j]

\* C19, in every step: the call returns the number of handler calls made.
C19_FanInStep ==
    (cons.chan /\ cons.op = "batch" /\ cons.pc # "idle"
        /\ cons'.pc = "idle") => (cons'.ret = Len(cons.log))

\* C19: within one consume_all / consume_all_owned call the handler gets
\* every item of ring i before any item of ring j > i, each ring in FIFO
\* order, and the total returned is the number of handler calls.
C19_FanInOrder == []C19_FanInState /\ [][C19_FanInStep]_vars

\* C19 witness: the call is finishing ring 1 after it took items from ring
\* 0, while ring 0 already holds an item pushed during the call
C19_Witness ==
    /\ cons.chan
    /\ cons.op = "batch"
    /\ cons.pc = "store"
    /\ cons.i = 1
    /\ cons.total >= 1
    /\ cons.n >= 1
    /\ tail[0] > head[0]

\* C20, in every state of a consume_all_up_to / consume_all_up_to_owned
\* call: at most max_total handler calls, in ring order, counted by the
\* running total.
C20_BoundedFanInState ==
    (cons.chan /\ cons.op = "upto" /\ cons.pc # "idle") =>
        /\ Len(cons.log) <= cons.max_total
        /\ Len(cons.log) = cons.total + cons.n
        /\ LogInRingOrder

\* C20, in every step: the call returns the number of handler calls, and
\* moves on to the next ring only when it took every item it observed in
\* the current one.
C20_BoundedFanInStep ==
    (cons.chan /\ cons.op = "upto" /\ cons.pc # "idle") =>
        /\ (cons'.pc = "idle") => (cons'.ret = Len(cons.log))
        /\ (cons'.pc # "idle" /\ cons'.i # cons.i) =>
                /\ cons'.i = cons.i + 1
                /\ \/ cons.pc = "store" /\ cons.n = cons.tail - cons.head
                   \/ cons.pc = "begin" /\ tail[cons.i] = head[cons.i]

\* C20: consume_all_up_to(max, h) and its owned form never invoke the
\* handler more than max times, return the number of invocations and
\* prefer earlier rings; with [1,2,3] and [4,5,6] in two rings, max = 4
\* delivers 1,2,3,4.
C20_BoundedFanIn ==
    []C20_BoundedFanInState /\ [][C20_BoundedFanInStep]_vars

\* C20 witness: with three items in each ring, a call with max = 4 has
\* taken the three items of ring 0 and the first item of ring 1 and stops
C20_Witness ==
    /\ cons.chan
    /\ cons.op = "upto"
    /\ cons.max_total = 4
    /\ cons.pc = "store"
    /\ cons.log = <<0, 0, 0, 1>>
    /\ delivered[0] = LoadedItems(0)
    /\ delivered[1] = <<<<1, 1>>>>
    /\ tail[1] - head[1] = Loaded

\* ---------------------------------------------------------------------
\* Properties of the async adapter
\* ---------------------------------------------------------------------

\* C11: a send that found the ring full eventually returns Ok once the
\* receiver drains, whatever the interleaving of the failed reserve and the
\* registration on the space-available notifier with the receiver's drain
\* and notify_waiters, as long as the receiver keeps being polled and no
\* shutdown happens.
C11_BlockedSendCompletes ==
    (Blocked(sender) /\ ~shutdown.shutdown_initiated)
        ~> \/ sender.pc = "idle" /\ sender.result = "Ok"
           \/ shutdown.shutdown_initiated

\* C12: when shutdown is called while a send is blocked on a full ring and
\* the closed flag is set with the send still blocked, the send eventually
\* resolves with Err(Closed), whatever the interleaving of the failed
\* reserve and the wait on the notifier.
C12_ShutdownUnblocksSend ==
    (shutdown.while_blocked /\ shutdown.closed /\ Blocked(sender))
        ~> (sender.pc = "idle" /\ sender.result = "Closed")

\* C13: when the stream has reported its end, every item whose send or
\* try_send returned Ok has been yielded: none is left in the ring.
C13_AcceptedItemsYielded ==
    (receiver.ended /\ sender.pc = "idle") =>
        /\ Len(receiver.out) = Len(sent[0])
        /\ tail[0] = head[0]

\* C14: a try_send that returns Err hands back the item it was given,
\* leaves tail and the slots of the ring as they were and raises no data
\* notification; a try_send that returns Ok has committed exactly one
\* item, the one it was given, and has pulsed the data notifier once.
C14_TrySend ==
    (sender.pc = "idle" /\ sender.kind = "try_send") =>
        /\ sender.result \in {"Ok", "Err"}
        /\ (sender.result = "Err") =>
                /\ sender.back = sender.item
                /\ tail[0] = sender.t0
                /\ Len(sent[0]) = sender.t0
                /\ buffer[0] = sender.b0
                /\ data_notify.pulses = sender.p0
        /\ (sender.result = "Ok") =>
                /\ tail[0] = sender.t0 + 1
                /\ Len(sent[0]) = sender.t0 + 1
                /\ sent[0][sender.t0 + 1] = sender.item
                /\ data_notify.pulses = sender.p0 + 1

\* C14 witness: try_send was refused on a full ring that is still full,
\* with no shutdown
C14_Witness ==
    /\ sender.pc = "idle"
    /\ sender.kind = "try_send"
    /\ sender.result = "Err"
    /\ ~shutdown.shutdown_initiated
    /\ tail[0] - head[0] = Capacity

SentPrefix(r, k) == [j \in 1 .. k |-> <<r, nextVal[r] - k + j - 1>>]

\* C29, the step in which send returns a positive count, and every step in
\* which a reserve is refused
C29_SendStep ==
    \A r \in Rings :
        /\ (prod[r].op = "send" /\ prod[r].pc = "writing"
                /\ prod'[r].pc = "idle") =>
                LET k == prod'[r].ret
                IN /\ 1 <= k
                   /\ k <= prod[r].n
                   /\ tail'[r] = tail[r] + k
                   /\ sent'[r] = sent[r] \o SentPrefix(r, k)
                   /\ SlotValues(r, tail[r], k) = SentPrefix(r, k)
        /\ (prod'[r] # prod[r] /\ prod'[r].res = "None") =>
                /\ prod'[r].ret = 0
                /\ tail' = tail
                /\ sent' = sent
                /\ buffer' = buffer
        /\ (prod[r].op = "send" /\ prod[r].pc = "slow") =>
                (tail' = tail /\ buffer' = buffer)

\* C29: Producer::send(items) returns a count k with 0 <= k <= len(items)
\* and publishes exactly the prefix items[0..k) in order; when it returns 0
\* it leaves tail and the slots of the ring unchanged.
C29_SendPublishesPrefix == [][C29_SendStep]_vars

\* C29 witness: send of three items at the last slot before the wrap has
\* published the first of them and returned 1
C29_Witness ==
    /\ prod[0].pc = "idle"
    /\ prod[0].op = "send"
    /\ prod[0].res = "Committed"
    /\ prod[0].n = 3
    /\ prod[0].ret = 1
    /\ tail[0] = Capacity

\* Slots of the sequences lo .. hi - 1
SlotsOf(lo, hi) == {SlotOf(q) : q \in lo .. (hi - 1)}

\* C30, in every state: the slots of the producer's reservation and the
\* slots of the sequences not yet released by a store of head are disjoint,
\* and a drain in progress covers only published sequences.
C30_RangesDisjoint ==
    /\ \A r \in Rings :
        (prod[r].pc \in {"writing", "holding"}) =>
            /\ prod[r].t = tail[r]
            /\ SlotsOf(tail[r], tail[r] + prod[r].len)
                    \cap SlotsOf(head[r], tail[r]) = {}
    /\ (cons.pc \in {"loop", "store"}) =>
            /\ head[cons.i] = cons.head
            /\ cons.head <= cons.pos
            /\ cons.pos <= tail[cons.i]

\* C30, in every step: the producer writes only a slot of its reservation
\* that holds no unreleased sequence, and a drain reads only a slot of a
\* published, unreleased sequence.
C30_AccessStep ==
    /\ \A r \in Rings : \A i \in Slots :
        (buffer'[r][i] # buffer[r][i]) =>
            /\ prod[r].pc \in {"writing", "holding"}
            /\ i \in SlotsOf(tail[r], tail[r] + prod[r].len)
            /\ i \notin SlotsOf(head[r], tail[r])
    /\ (cons.pc = "loop" /\ cons'.n = cons.n + 1) =>
            /\ head[cons.i] <= cons.pos
            /\ cons.pos < tail[cons.i]
            /\ Len(delivered'[cons.i]) = Len(delivered[cons.i]) + 1
            /\ delivered'[cons.i][Len(delivered'[cons.i])]
                    = buffer[cons.i][SlotOf(cons.pos)]

\* C30: under any interleaving of one producer and one consumer, the
\* producer writes only slots of [tail, tail + L) of its reservation, a
\* drain reads only slots of [head, tail), and the two ranges never share a
\* slot: nothing unconsumed or unreleased is overwritten and nothing
\* unpublished is read.
C30_SlotOwnership == []C30_RangesDisjoint /\ [][C30_AccessStep]_vars

\* C30 witness: the producer has written into a reservation of the second
\* lap, in a slot released by an earlier drain, while a drain is reading
\* the sequences in front of it
C30_Witness ==
    /\ prod[0].pc = "holding"
    /\ prod[0].wr >= 1
    /\ tail[0] >= Capacity
    /\ cons.pc = "loop"
    /\ cons.n >= 1
    /\ head[0] > 0

\* ---------------------------------------------------------------------
\* Properties of the life cycle of items, of backoff and of the sequences
\* ---------------------------------------------------------------------

\* Number of positions of the sequence s that hold x
Occurrences(s, x) == Cardinality({j \in 1 .. Len(s) : s[j] = x})

\* C21: every committed item is handed to a drain handler or destroyed by
\* the drop of the ring at most once, and once the ring is dropped exactly
\* once: the drop destroys the items from head to tail, in order, and no
\* committed item is left that was neither handed out nor destroyed.
C21_ReleasedOnce ==
    \A r \in Rings :
        /\ \A j \in 1 .. Len(sent[r]) :
                Occurrences(delivered[r], sent[r][j])
                    + Occurrences(dropped[r].items, sent[r][j]) <= 1
        /\ dropped[r].done =>
                /\ ~dropped[r].ub
                /\ dropped[r].items = SubSeq(sent[r], head[r] + 1, tail[r])
                /\ \A j \in 1 .. Len(sent[r]) :
                        Occurrences(delivered[r], sent[r][j])
                            + Occurrences(dropped[r].items, sent[r][j]) = 1

\* A reserve_with_backoff call is between two attempts or inside one
InBackoff == prod[0].op = "rwb" /\ prod[0].pc \in {"slow", "rwb_check"}

C22_BackoffStep ==
    /\ (InBackoff /\ ~InBackoff') =>
            \/ prod'[0].pc = "holding" /\ prod'[0].res = "Some"
            \/ prod'[0].pc = "idle" /\ prod'[0].res = "None"
    /\ (prod[0].pc = "slow" /\ prod'[0].pc = "idle") => FALSE
    /\ (prod[0].pc = "rwb_check" /\ prod'[0].pc = "idle") =>
            \/ closed[0]
            \/ prod[0].step = YIELD_LIMIT
    /\ (prod[0].pc = "rwb_check" /\ closed[0] /\ prod'[0] # prod[0]) =>
            prod'[0].pc = "idle"
    /\ (prod[0].pc = "rwb_check" /\ prod'[0] # prod[0]
            /\ prod'[0].pc # "idle") =>
            prod'[0].step = prod[0].step + 1
    /\ (prod[0].pc = "slow" /\ prod'[0] # prod[0]) =>
            prod'[0].step = prod[0].step

\* C22: reserve_with_backoff terminates. It returns a reservation when an
\* attempt succeeds, None when it finds the ring closed after a failed
\* attempt, and None after the attempt at step YIELD_LIMIT has failed; every
\* failed attempt but the last raises the step by one, so that a call makes
\* at most YIELD_LIMIT + 1 attempts, whether or not the consumer ever makes
\* room.
C22_BackoffTerminates ==
    /\ [](prod[0].step <= YIELD_LIMIT)
    /\ [][C22_BackoffStep]_vars
    /\ (InBackoff ~> ~InBackoff)

\* C22 witness: reserve_with_backoff gave up on an open ring that had too
\* little room for a request the ring could hold, and that still has too
\* little room
C22_Witness ==
    /\ prod[0].pc = "idle"
    /\ prod[0].res = "None"
    /\ prod[0].n >= 1
    /\ prod[0].n <= Capacity
    /\ ~closed[0]
    /\ Space(tail[0], head[0]) < prod[0].n

C23_SequenceStep ==
    \A r \in Rings :
        /\ tail'[r] >= tail[r]
        /\ head'[r] >= head[r]
        /\ (tail'[r] # tail[r]) =>
                /\ prod[r].pc = "holding"
                /\ prod'[r].res = "Committed"
                /\ tail'[r] - tail[r] = prod'[r].ret
        /\ (head'[r] # head[r]) =>
                \/ /\ cons.pc = "store"
                   /\ cons.i = r
                   /\ head'[r] - head[r] = cons.n
                \/ /\ cons.op = "readable"
                   /\ cons'.op = "advance"
                   /\ cons'.i = r
                   /\ head'[r] - head[r] = cons'.n

\* C23: in every step tail and head do not decrease; tail changes only in
\* a commit, by the count committed, and head changes only in the store
\* that ends a drain or in advance, by the count consumed.
C23_SequencesMonotonic == [][C23_SequenceStep]_vars

\* C23 witness: commits have taken tail past the capacity, and both an
\* advance and a drain have moved head
C23_Witness ==
    /\ tail[0] > Capacity
    /\ cons.pc = "idle"
    /\ delivered[0] # <<>>
    /\ head[0] > Len(delivered[0])
    /\ head[0] = tail[0]

C24_CloseStep ==
    /\ \A r \in Rings : closed[r] => closed'[r]
    /\ ch_closed => ch_closed'
    /\ (closed' # closed \/ ch_closed' # ch_closed \/ closer' # closer) =>
            /\ UNCHANGED <<head, tail, buffer, producer_count, cached_head,
                           cached_tail, sent, delivered, active>>
            /\ \A r \in Rings : closed'[r] # closed[r] =>
                    (prod'[r] = prod[r] /\ cons' = cons)
    /\ ((\A r \in Rings : closed[r]) /\ ch_closed) =>
            UNCHANGED <<closed, ch_closed>>

\* C24: a step of Ring::close or of Channel::close changes closed flags
\* only: head, tail, the slots and producer_count stay as they are; a flag
\* that is set stays set in every later step; a close of what is already
\* closed changes no flag.
C24_CloseOnlySetsFlags == [][C24_CloseStep]_vars

\* C24 witness: a Channel::close is at its first ring with the channel and
\* every ring already closed, and ring 0 still holds an item
C24_Witness ==
    /\ closer.pc = "rings"
    /\ closer.i = 0
    /\ ch_closed
    /\ \A r \in Rings : closed[r]
    /\ tail[0] > head[0]
    /\ tail[0] > Warmup

\* ---------------------------------------------------------------------
\* Properties of shutdown
\* ---------------------------------------------------------------------

\* The step belongs to a shutdown call that is not the first one
LaterShutdownStep ==
    /\ shutdown' # shutdown
    /\ \/ shutdown.calls >= 2
       \/ shutdown.calls >= 1 /\ shutdown'.calls = shutdown.calls + 1

C25_LaterCallStep ==
    LaterShutdownStep =>
        /\ shutdown.closed /\ shutdown'.closed
        /\ shutdown.shutdown_initiated /\ shutdown'.shutdown_initiated
        /\ UNCHANGED <<tail, head, buffer, closed, ch_closed, sent,
                       delivered, receiver>>

\* C25: a shutdown call that follows another one, of either kind after
\* either kind, leaves the closed and shutdown flags set and changes
\* neither the ring nor the buffer of the receiver nor what the stream has
\* yielded, so the items still to be yielded are those left by the first
\* call.
C25_ShutdownIdempotent == [][C25_LaterCallStep]_vars

\* C25 witness: RingReceiver::shutdown has returned after
\* ShutdownSignal::shutdown, with items still to be yielded
C25_Witness ==
    /\ shutdown.calls = 2
    /\ shutdown.pc = "done"
    /\ shutdown.first = "signal"
    /\ shutdown.kind = "handle"
    /\ ~receiver.ended
    /\ tail[0] - Len(receiver.out) >= 2

\* RingReceiver::shutdown has been called
HandleCalled == shutdown.kind = "handle" \/ shutdown.tx_sent

\* ShutdownSignal::shutdown is the first shutdown call and is about to set
\* the closed flag
SignalShutdownBegun ==
    /\ shutdown.calls = 1
    /\ shutdown.first = "signal"
    /\ shutdown.pc = "close"

PendingItems ==
    IF sender.pending_item = NoItem THEN <<>> ELSE <<sender.pending_item>>

\* C26: with start_send called only after poll_ready returned Ready(Ok),
\* whenever no Sink method is in progress the items start_send accepted are
\* the items committed to the ring, each once and in order, followed by the
\* one item that may be pending: no accepted item is overwritten, dropped
\* or committed twice, and a new item is accepted only with nothing pending.
C26_SinkKeepsItems ==
    /\ (sender.pc = "idle") =>
            sender.accepted = sent[0] \o PendingItems
    /\ (sender.pc = "idle" /\ sender.ready) => sender.pending_item = NoItem
    /\ \A j \in 1 .. Len(sender.accepted) : sender.accepted[j] = <<0, j>>

\* C26 witness: start_send accepted an item on a full ring, a later
\* poll_flush committed it after a drain, and the ring is on its second lap
C26_Witness ==
    /\ sender.pc = "idle"
    /\ sender.kind = "poll_flush"
    /\ sender.result = "Ok"
    /\ sender.flushed >= 1
    /\ sender.pending_item = NoItem
    /\ tail[0] > Capacity
    /\ Len(sender.accepted) = tail[0]

\* ---------------------------------------------------------------------
\* Properties of the sender factory
\* ---------------------------------------------------------------------

\* C27: a register that begins after SenderFactory::close has returned
\* returns Closed, and a send or try_send that begins after it, on a sender
\* registered before the close whose ring has room, returns Ok.
C27_CloseKeepsSenders ==
    /\ \A t \in RegThreads :
            (reg[t].pc = "done" /\ reg[t].late) => reg[t].result = "Closed"
    /\ (sender.pc = "idle" /\ sender.late
            /\ sender.t0 - head[0] < Capacity) =>
            sender.result = "Ok"

\* ---------------------------------------------------------------------
\* Properties of the consumer's cached tail
\* ---------------------------------------------------------------------

\* C31: whatever mix of recv / readable + advance and of the drains the
\* consumer makes on one ring, the cached tail that readable has just used
\* lies between head and tail, the slice readable returns holds only
\* sequences from head up to tail, and head never passes tail.
C31_CachedTailPessimistic ==
    /\ head[0] <= tail[0]
    /\ (cons.pc = "idle" /\ cons.op = "readable") =>
            /\ cons.head <= cached_tail[0]
            /\ cached_tail[0] <= tail[0]
            /\ cons.head + cons.ret <= tail[0]

\* ---------------------------------------------------------------------
\* Properties of the channel next to concurrent registrations
\* ---------------------------------------------------------------------

\* C32: whatever the interleaving of the consumer-side channel operations
\* with register calls, the number of rings an operation iterates over is
\* at most max_producers, and neither the consumer nor the thread that
\* closes panics on the slice rings[..count].
C32_SliceWithinRings ==
    /\ cons.pc # "panicked"
    /\ closer.pc # "panicked"
    /\ cons.chan => cons.count <= MaxProducers
    /\ (closer.pc = "rings") => closer.count <= MaxProducers

\* ---------------------------------------------------------------------
\* Properties of a second reservation taken next to the first
\* ---------------------------------------------------------------------

\* The step commits the first reservation
FirstCommits ==
    /\ tail'[0] # tail[0]
    /\ prod[0].pc = "holding"
    /\ prod'[0].pc # "holding"

\* The step commits the second reservation
SecondCommits ==
    /\ tail'[0] # tail[0]
    /\ prod[0].second.pc = "holding"
    /\ prod'[0].second.pc = "none"
    /\ ~FirstCommits

\* C33, in every state: tail - head <= capacity, and every slot published
\* holds an item that was written for this publication: none was never
\* written and none is an item that was published before
C33_OverlapState ==
    /\ tail[0] - head[0] <= Capacity
    /\ \A j \in 1 .. Len(sent[0]) :
            /\ sent[0][j] # NoItem
            /\ \A i \in 1 .. (j - 1) : sent[0][i] # sent[0][j]

\* C33, for every commit: the slots it publishes are the slots of the
\* reservation that commits, all of them written through it
C33_OverlapStep ==
    /\ FirstCommits =>
            /\ tail[0] = prod[0].t
            /\ tail'[0] - tail[0] <= prod[0].wr
    /\ SecondCommits =>
            /\ tail[0] = prod[0].second.t
            /\ tail'[0] - tail[0] <= prod[0].second.wr

\* C33: the bounded-count and initialized-range invariants hold when the
\* producer takes a second reservation from the same ring before it
\* commits the first: after both commits tail - head <= capacity, and
\* every slot in [head, tail) was written through the reservation that
\* published it.
C33_SecondReservationSafe ==
    []C33_OverlapState /\ [][C33_OverlapStep]_vars

\* ---------------------------------------------------------------------
\* Properties of register next to close
\* ---------------------------------------------------------------------

\* C34: once Channel::close has returned and every register call that
\* overlapped it has returned, every producer handle that was handed out
\* refers to a closed ring.
C34_HandlesClosedAfterClose ==
    (/\ ch_closed
     /\ closer.pc = "idle"
     /\ \A t \in RegThreads : reg[t].pc \in {"idle", "done"})
        => \A t \in RegThreads :
                (reg[t].result = "Ok") => closed[reg[t].id]

\* C35, in every state: producer_count is the number of producers
\* registered so far (ring indices claimed by calls that succeed) and is at
\* most max_producers
C35_CountState ==
    /\ producer_count = Len(handed)
    /\ producer_count <= MaxProducers

\* C35, in every step: producer_count does not decrease
C35_CountStep == producer_count' >= producer_count

\* C35: in every reachable state under concurrent register calls,
\* producer_count equals the number of registered producers; it never
\* decreases from one observation to the next and never exceeds
\* max_producers.
C35_ProducerCountExact ==
    []C35_CountState /\ [][C35_CountStep]_vars

\* ---------------------------------------------------------------------
\* Properties of SinkExt::send
\* ---------------------------------------------------------------------

\* C36: when poll_ready or poll_flush has returned Pending with the item
\* pending because the ring is full, then, with the receiver polled again
\* and again and no shutdown, the task is woken and its retry commits the
\* pending item: SinkExt::send on a full ring completes once the receiver
\* drains.
C36_PendingSinkSendCompletes ==
    (/\ sender.pc = "idle"
     /\ sender.result = "Pending"
     /\ sender.pending_item # NoItem
     /\ ~shutdown.shutdown_initiated)
        ~> (sender.pending_item = NoItem \/ shutdown.shutdown_initiated)

\* ---------------------------------------------------------------------
\* Properties of the receiver's polls
\* ---------------------------------------------------------------------

AfterRecvDrain ==
    /\ receiver.pc \in {"final_drain", "data_drain", "timer_drain",
                        "last_drain"}
    /\ cons.pc = "idle"

\* C38, for every step of the receiver: when a drain of poll_next moved
\* one item or more into the buffer, the step that follows the drain
\* calls notify_waiters; and a poll that has called it keeps that until it
\* returns
C38_SignalStep ==
    /\ (AfterRecvDrain /\ receiver'.pc # receiver.pc /\ cons.ret > 0)
            => receiver'.signaled
    /\ (receiver.pc # "idle" /\ receiver.signaled) => receiver'.signaled

\* C38: every receiver poll that moves at least one item out of the rings
\* into its buffer (notified drain, timer drain, closed-channel drain or
\* shutdown drain) pulses the space-available notifier with notify_waiters
\* before that poll returns.
C38_DrainSignalsSpace == [][C38_SignalStep]_vars

\* C38 witness: a poll whose timer drain moved one item into the buffer
\* has returned after calling notify_waiters, with no shutdown
C38_Witness ==
    /\ receiver.pc = "idle"
    /\ receiver.signaled
    /\ cons.ret = 1
    /\ cons.op = "-"
    /\ ~receiver.data_pending
    /\ ~data_notify.permit
    /\ tail[0] = head[0]
    /\ Len(receiver.out) = tail[0]
    /\ ~shutdown.shutdown_initiated

\* Ring::make_reservation on a ring of 2^bits slots: the length granted
\* to a request of n slots at tail t
GrantedAt(bits, t, n) == Min(n, 2 ^ bits - BitAnd(t, 2 ^ bits - 1))

\* The slots a drain from head h to tail t reads on a ring of 2^bits
\* slots, in the order of the reads
DrainSlotsAt(bits, h, t) ==
    [j \in 1 .. (t - h) |-> BitAnd(h + j - 1, 2 ^ bits - 1)]

\* The example on a ring of 8 slots: 6 items written, 4 drained (tail 6,
\* head 4), then 4 items wanted. The first reserve grants the 2 slots up
\* to the wrap, the second the 2 slots from slot 0, and the drain from 4
\* to 10 reads slots 4, 5 (old #5, #6), 6, 7 (new #1, #2), 0, 1 (new #3,
\* #4)
WrapExample ==
    LET l1 == GrantedAt(3, 6, 4)
        l2 == GrantedAt(3, 6 + l1, 4 - l1)
    IN /\ 2 ^ 3 - (6 - 4) >= 4
       /\ l1 = 2
       /\ l2 = 2
       /\ BitAnd(6 + l1, 2 ^ 3 - 1) = 0
       /\ DrainSlotsAt(3, 4, 6 + l1 + l2) = <<4, 5, 6, 7, 0, 1>>

\* The caller of ring 0 that wants exactly n items
Filler == prod[0].fill

\* C39: whenever a ring has at least n free slots (1 <= n <= capacity), a
\* producer that calls reserve(n), commits the L1 slots granted and, if
\* L1 < n, calls reserve(n - L1) and commits, sees both reserves succeed
\* and publishes exactly n items in order; a third reservation is never
\* needed. On a ring of 8 slots, write 6, drain 4, write 4: the last 4 are
\* granted as two contiguous pieces and the final drain yields old #5,
\* old #6, new #1..4 in that order.
C39_TwoReservationsSuffice ==
    /\ (Filler.n >= 1 /\ Filler.free >= Filler.n) =>
            /\ Filler.pieces <= 2
            /\ prod[0].res # "None"
            /\ prod[0].pc = "idle" =>
                    /\ Filler.done = Filler.n
                    /\ tail[0] = Filler.t0 + Filler.n
    /\ sent[0] = [j \in 1 .. tail[0] |-> <<0, j>>]
    /\ IsPrefix(delivered[0], sent[0])
    /\ WrapExample

\* C39 witness: on the ring of 4 slots, 3 items written and 2 drained,
\* then 3 items wanted: granted as 1 slot and 2 slots, and all 6 items
\* drained in the order written
C39_Witness ==
    /\ prod[0].pc = "idle"
    /\ prod[0].res = "Committed"
    /\ Filler = [n |-> 3, pieces |-> 2, done |-> 3, free |-> 3, t0 |-> 3]
    /\ cons.pc = "idle"
    /\ head[0] = 6
    /\ delivered[0] = sent[0]
    /\ Len(delivered[0]) = 6

\* C40: the receiver's internal buffer never holds more than batch_hint
\* items at any point of any poll of the stream.
C40_BufferWithinBatchHint == Len(Buffer) <= receiver.batch_hint

\* C40, amended: while the channel is not closed, and during every
\* notified drain and every timer drain, the receiver's buffer holds at
\* most batch_hint items; the shutdown drain and the closed-channel drain
\* take every remaining item, and the buffer then holds at most what the
\* ring held.
C40_BufferWithinBatchHintUnlessClosed ==
    /\ (~shutdown.closed \/ receiver.pc \in {"data_drain", "timer_drain"})
            => Len(Buffer) <= receiver.batch_hint
    /\ Len(Buffer) <= Capacity

\* C40 witness: a bounded drain of the open channel has stopped with
\* batch_hint items in the buffer and an item left in the ring
C40_Witness ==
    /\ receiver.pc \in {"data_drain", "timer_drain"}
    /\ cons.pc = "idle"
    /\ ~shutdown.closed
    /\ receiver.batch_hint < Capacity
    /\ Len(Buffer) = receiver.batch_hint
    /\ tail[0] > head[0]

====
